---- MODULE Spec2Model ----
(***************************************************************************)
(* A model of go-mph: the BBHash and CHD minimal perfect hash builders,    *)
(* the constant-DB writer (DBWriter) and the DB reader (DBReader).         *)
(*                                                                         *)
(* Hashing.  bhash, rhash and mix are 64-bit multiply/xor mixers keyed by  *)
(* a random salt.  The model does not compute them: the salt stands for    *)
(* the function it selects, and that function is an oracle `hv` that is    *)
(* sampled the first time the code evaluates the hash of a given argument  *)
(* and remembered from then on.  Every hash function is therefore covered, *)
(* restricted to the hash values of HashVals / ChdHashVals.                *)
(*                                                                         *)
(* SipHash-2-4 and SHA-512/256 are modelled as collision free: a digest    *)
(* carries its preimage.                                                   *)
(***************************************************************************)
EXTENDS Integers, Sequences, FiniteSets, TLC

\* ------------------------------------------------------------- bounds
\* Keys are the uint64 values 0..MaxKey.
MaxKey == 2
\* Stands for _MaxLevel (4000, bbhash.go:59): the level limit of BBHash.
MaxLevel == 1
\* Stands for _MaxSeed (131072, chd.go:27): the seed limit of CHD.
MaxSeed == 3
\* The low hash values an oracle may answer with (besides HighHash).
NHash == 2

Keys == 0 .. MaxKey

\* A hash value beyond the first 64-bit word, so that a two-word bit-vector
\* has a bit set in its second word.
HighHash == 65

HashVals == (0 .. (NHash - 1)) \cup {HighHash}

\* the hash values an oracle of rhash may answer with (before the mask by m-1)
ChdHashVals == 0 .. NHash

\* the hash values where a writer and a reader are at work
DBHashVals == 0 .. (NHash - 1)

\* the load factor of CHD, as a fraction <<numerator, denominator>>
Loads == {<<1, 1>>, <<1, 2>>}

\* gamma, as a fraction <<numerator, denominator>>
Gammas == {<<2, 1>>, <<64, 1>>}

\* The longest key list handed to a builder or a writer.
MaxAdds == 3

\* The environment makes at most this many I/O calls fail.
MaxFaults == 1

\* runtime.NumCPU(): the shard workers of the concurrent construction
NCPU == 2

\* MinParallelKeys (20000 in the source), scaled: Freeze builds more keys than
\* this concurrently, and a later level of fewer keys serially.  A colliding
\* position holds two keys or more, so a redo list is never shorter than 2.
MinParallelKeys == 2

\* the threads that call Find on one DBReader
NThreads == 2

\* the records one writer is given
MaxRecs == 2

\* the largest key a writer is given and a reader is asked for
MaxDBKey == 1

DBKeys == 0 .. MaxDBKey

\* the gamma a BBHash writer is made with
DBGammas == {<<2, 1>>}

VARIABLES
    hv,     \* the hash oracle: the hash values sampled so far
    bld,    \* the MPHBuilder and the state of its construction
    mp,     \* the MPH that Freeze returned, or NoMPH
    found,  \* what the last MPH.Find returned
    w,      \* the DBWriter
    kv,     \* the pairs the caller added without error (kvmap of db_test.go)
    ino,    \* the file behind the writer's descriptor w.fd
    fs,     \* the directory: is the temporary name linked, the file at the final path
    fz,     \* the position and the locals of a running Freeze
    ret,    \* what the last call on the writer returned
    faults, \* the I/O calls the environment has failed so far
    rd,     \* the DBReader
    rret    \* what the last call on the reader returned

mphVars == <<hv, bld, mp, found>>
dbVars == <<w, kv, ino, fs, fz, ret, faults, rd, rret>>
vars == <<hv, bld, mp, found, w, kv, ino, fs, fz, ret, faults, rd, rret>>

\* ----------------------------------------------------------- helpers
RECURSIVE SumSeq(_)
SumSeq(s) == IF s = <<>> THEN 0 ELSE Head(s) + SumSeq(Tail(s))

Range(s) == {s[i] : i \in DOMAIN s}

\* the sequences over S without repetition, of length 0..n
RECURSIVE DistinctSeqs(_, _)
DistinctSeqs(S, n) ==
    IF n = 0 THEN {<<>>}
    ELSE LET shorter == DistinctSeqs(S, n - 1)
         IN  shorter \cup {Append(qx[1], qx[2]) :
                              qx \in {px \in shorter \X S : px[2] \notin Range(px[1])}}

\* -------------------------------------------------------- bitVector
\* A bitVector is its slice v of uint64 words; a word is the set of the
\* positions (0..63) of its one bits.
newBitVector(sz) == [k \in 1 .. ((sz + 63) \div 64) |-> {}]

Size(b) == Len(b) * 64

Words(b) == Len(b)

Set(b, i) == [b EXCEPT ![(i \div 64) + 1] = @ \cup {i % 64}]

IsSet(b, i) == (i % 64) \in b[(i \div 64) + 1]

Reset(b) == [k \in DOMAIN b |-> {}]

Merge(b, o) == [k \in DOMAIN b |-> b[k] \cup o[k]]

popcount(x) == Cardinality(x)

ComputeRank(b) == SumSeq([k \in DOMAIN b |-> popcount(b[k])])

\* v << (64 - y) keeps the bits of v below position y
RankLE(b, i) ==
    LET x == i \div 64
        y == i % 64
    IN  SumSeq([k \in 1 .. x |-> popcount(b[k])])
          + popcount({j \in b[x + 1] : j <= y})

Rank(b, i) ==
    LET x == i \div 64
        y == i % 64
    IN  SumSeq([k \in 1 .. x |-> popcount(b[k])])
          + popcount({j \in b[x + 1] : j < y})

\* ------------------------------------------------------------ bbhash
NoMPH == [kind |-> "none"]

\* bhash(key, salt, lvl): the salt selects the oracle h
bhash(h, k, lvl) == h[<<"b", k, lvl>>]

\* the arguments of bhash that level lvl evaluates on keys
LevelQueries(keys, lvl) == {<<"b", keys[i], lvl>> : i \in DOMAIN keys}

NewBBHashBuilder(g) == [kind |-> "bbhash", keys |-> <<>>, g |-> g, phase |-> "add"]

\* bbHash.bvSize: uint64(float64(n) * g)
bvSize(n, g) == (n * g[1]) \div g[2]

\* bbHash.newState
newState(n, g) ==
    [A |-> newBitVector(bvSize(n, g)), coll |-> newBitVector(bvSize(n, g)),
     redo |-> <<>>, lvl |-> 0, bits |-> <<>>]

\* one key of preprocess, on the pair <<A, coll>>
preprocessKey(ac, i) ==
    IF IsSet(ac[2], i) THEN ac
    ELSE IF IsSet(ac[1], i) THEN <<ac[1], Set(ac[2], i)>>
    ELSE <<Set(ac[1], i), ac[2]>>

RECURSIVE preprocessFrom(_, _, _, _, _)
preprocessFrom(ac, keys, h, lvl, j) ==
    IF j > Len(keys) THEN ac
    ELSE preprocessFrom(preprocessKey(ac, bhash(h, keys[j], lvl) % Size(ac[1])),
                        keys, h, lvl, j + 1)

\* preprocess(s, keys): the state with A and coll after the collision pass
preprocess(s, keys, h) ==
    LET ac == preprocessFrom(<<s.A, s.coll>>, keys, h, s.lvl, 1)
    IN  [s EXCEPT !.A = ac[1], !.coll = ac[2]]

\* one key of assign, on the pair <<A, redo>>
assignKey(ar, coll, k, i) ==
    IF IsSet(coll, i) THEN <<ar[1], Append(ar[2], k)>>
    ELSE <<Set(ar[1], i), ar[2]>>

RECURSIVE assignFrom(_, _, _, _, _, _)
assignFrom(ar, coll, keys, h, lvl, j) ==
    IF j > Len(keys) THEN ar
    ELSE assignFrom(assignKey(ar, coll, keys[j], bhash(h, keys[j], lvl) % Size(ar[1])),
                    coll, keys, h, lvl, j + 1)

\* assign(s, keys) followed by appendRedo of the local redo list
assign(s, keys, h) ==
    LET ar == assignFrom(<<s.A, <<>>>>, s.coll, keys, h, s.lvl, 1)
    IN  [s EXCEPT !.A = ar[1], !.redo = s.redo \o ar[2]]

\* state.nextLevel: <<the new state, the keys of the next level>>; no keys
\* (nil) ends the construction
nextLevel(s, n, g) ==
    IF s.redo = <<>>
    THEN <<[s EXCEPT !.bits = Append(s.bits, s.A), !.A = <<>>], <<>>>>
    ELSE <<[s EXCEPT !.bits = Append(s.bits, s.A), !.A = newBitVector(bvSize(n, g)),
                     !.coll = Reset(s.coll), !.redo = <<>>, !.lvl = s.lvl + 1],
           s.redo>>

\* bbHash.preComputeRank
preComputeRank(bits) ==
    [l \in DOMAIN bits |-> SumSeq([j \in 1 .. (l - 1) |-> ComputeRank(bits[j])])]

\* One iteration of the loop of state.singleThread on the keys of the level.
\* The remainder bhash % sz panics (integer divide by zero) on an empty A.
singleThreadIter(s, keys, h, n, g) ==
    IF keys # <<>> /\ Size(s.A) = 0
    THEN [out |-> "panic", s |-> s, keys |-> keys]
    ELSE LET s1 == preprocess(s, keys, h)
             s2 == [s1 EXCEPT !.A = Reset(s1.A)]
             s3 == assign(s2, keys, h)
             nx == nextLevel(s3, n, g)
         IN  IF nx[2] = <<>> THEN [out |-> "done", s |-> nx[1], keys |-> <<>>]
             ELSE IF nx[1].lvl > MaxLevel THEN [out |-> "fail", s |-> nx[1], keys |-> nx[2]]
             ELSE [out |-> "next", s |-> nx[1], keys |-> nx[2]]

\* every argument the construction over keys may hash
BBBuildQueries(keys) == UNION {LevelQueries(keys, l) : l \in 0 .. MaxLevel}

\* state.singleThread: the loop over the levels, and the arguments of bhash
\* it evaluated
RECURSIVE singleThread(_, _, _, _, _, _)
singleThread(s, keys, h, n, g, asked) ==
    LET r == singleThreadIter(s, keys, h, n, g)
        a == asked \cup LevelQueries(keys, s.lvl)
    IN  IF r.out = "next" THEN singleThread(r.s, r.keys, h, n, g, a)
        ELSE [out |-> r.out, s |-> r.s, asked |-> a]

\* the bbHash that a finished construction leaves
bbHashOf(s, n, g) ==
    [kind |-> "bbhash", bits |-> s.bits, ranks |-> preComputeRank(s.bits), n |-> n, g |-> g]

\* bbHash.Find from level lvl on: <<index, ok>>
RECURSIVE bbFindFrom(_, _, _, _)
bbFindFrom(m, h, k, lvl) ==
    IF lvl > Len(m.bits) THEN <<0, FALSE>>
    ELSE LET bv == m.bits[lvl]
             i  == bhash(h, k, lvl - 1) % Size(bv)
         IN  IF IsSet(bv, i)
             THEN <<(1 + m.ranks[lvl] + Rank(bv, i)) - 1, TRUE>>
             ELSE bbFindFrom(m, h, k, lvl + 1)

bbFind(m, h, k) == bbFindFrom(m, h, k, 1)

\* Find takes a remainder by the size of the first bit-vector: an empty one
\* panics (integer divide by zero)
bbFindPanics(m) == m.bits # <<>> /\ Size(m.bits[1]) = 0

bbLen(m) == m.n

\* the arguments of bhash that Find(k) may evaluate
FindQueries(m, k) == {<<"b", k, l - 1>> : l \in DOMAIN m.bits}

\* the arguments of bhash that Find(k) did evaluate: those of the levels up
\* to the first one whose bit is set
FindAsked(m, h, k) ==
    {<<"b", k, l - 1>> : l \in {l \in DOMAIN m.bits :
        \A j \in 1 .. (l - 1) : ~IsSet(m.bits[j], bhash(h, k, j - 1) % Size(m.bits[j]))}}

\* --------------------------------------------------------------- chd
NewChdBuilder(load) == [kind |-> "chd", keys |-> <<>>, g |-> load, phase |-> "add"]

\* n |= n >> 1 ... n |= n >> 32: every bit below the highest one bit is set
RECURSIVE smear(_, _)
smear(x, p) == IF p - 1 >= x THEN p - 1 ELSE smear(x, 2 * p)

\* nextpow2: on 0 the decrement wraps to 2^64 - 1 and the increment back to 0
nextpow2(n) == IF n = 0 THEN 0 ELSE smear(n - 1, 1) + 1

\* rhash(seed, key, sz, salt) = mix(h) & (sz - 1), sz a power of two >= 1
rhash(h, seed, k, sz) == h[<<"c", seed, k>>] % sz

\* m := nextpow2(uint64(float64(len(keys)) / load))
chdTableSize(n, load) == nextpow2((n * load[2]) \div load[1])

\* the keys of c.keys that rhash(0, ...) sends to bucket j, in their order
bucketKeys(keys, h, m, j) == SelectSeq(keys, LAMBDA k : rhash(h, 0, k, m) = j)

\* sort.Sort(buckets): decreasing number of keys; a slice of at most 12
\* elements is insertion sorted, which keeps equal buckets in slot order
sortedBuckets(keys, h, m) ==
    LET b == [j \in 0 .. (m - 1) |-> bucketKeys(keys, h, m, j)]
        before(i, j) == Len(b[i]) > Len(b[j]) \/ (Len(b[i]) = Len(b[j]) /\ i < j)
        pos(j) == 1 + Cardinality({i \in 0 .. (m - 1) : before(i, j)})
    IN  [p \in 1 .. m |->
            LET j == CHOOSE j \in 0 .. (m - 1) : pos(j) = p
            IN  [slot |-> j, keys |-> b[j]]]

\* a placement that takes the seed whatever slots are occupied
placeAny(occ, bOcc, bkeys, h, sd, m, j) == <<TRUE, bOcc>>

\* the inner loop over the keys of a bucket under seed sd: <<fits, bOcc>>
RECURSIVE placeFrom(_, _, _, _, _, _, _)
placeFrom(occ, bOcc, bkeys, h, sd, m, j) ==
    IF j > Len(bkeys) THEN <<TRUE, bOcc>>
    ELSE LET x == rhash(h, sd, bkeys[j], m)
         IN  IF IsSet(occ, x) \/ IsSet(bOcc, x) THEN <<FALSE, bOcc>>
             ELSE placeFrom(occ, Set(bOcc, x), bkeys, h, sd, m, j + 1)

\* what chdBuilder.Freeze sets up before its loop over the buckets
chdBegin(keys, h, load) ==
    LET m == chdTableSize(Len(keys), load)
    IN  [m |-> m, buckets |-> sortedBuckets(keys, h, m),
         seeds |-> [j \in 1 .. m |-> 0],
         occ |-> newBitVector(m), bi |-> 1, sd |-> 1, tries |-> 0, maxseed |-> 0]

\* one seed tried on the bucket at hand
chdTry(c, h) ==
    LET b == c.buckets[c.bi]
        r == placeFrom(c.occ, Reset(c.occ), b.keys, h, c.sd, c.m, 1)
    IN  IF r[1]
        THEN [c EXCEPT !.occ = Merge(c.occ, r[2]), !.seeds[b.slot + 1] = c.sd,
                       !.maxseed = IF c.sd > @ THEN c.sd ELSE @,
                       !.bi = @ + 1, !.sd = 1]
        ELSE [c EXCEPT !.tries = @ + 1, !.sd = @ + 1]

\* makeSeeds: the width in bytes of a stored seed
seedSizeOf(max) == IF max < 256 THEN 1 ELSE IF max < 65536 THEN 2 ELSE 4

\* the chd that a finished construction leaves
chdOf(c) ==
    [kind |-> "chd", seed |-> c.seeds, seedsize |-> seedSizeOf(c.maxseed), tries |-> c.tries]

\* chd.Len: the length of the seed table
chdLen(m) == Len(m.seed)

\* chd.Find: <<index, ok>>
chdFind(m, h, k) ==
    LET sz == chdLen(m)
        b  == rhash(h, 0, k, sz)
    IN  <<rhash(h, m.seed[b + 1], k, sz), TRUE>>

\* on an empty seed table the mask sz - 1 is all ones and the seed lookup
\* indexes an empty slice: Find panics
chdFindPanics(m) == chdLen(m) = 0

\* the second argument of rhash that Find(k) evaluates, the first one sampled
ChdFindQueries(m, h, k) == {<<"c", m.seed[rhash(h, 0, k, chdLen(m)) + 1], k>>}

\* ------------------------------------------- the builders, standing alone
NoFind == [key |-> -1, idx |-> -1, ok |-> FALSE]

\* the oracle h extended by f
Extend(h, f) == f @@ h

Unsampled(h, Q) == {q \in Q : q \notin DOMAIN h}

Restrict(h, Q) == [q \in DOMAIN h \cap Q |-> h[q]]

\* MPHBuilder.Add: bbHashBuilder.Add appends the key
MphAdd(k) ==
    /\ bld.phase = "add"
    /\ Len(bld.keys) < MaxAdds
    /\ bld' = [bld EXCEPT !.keys = Append(@, k)]
    /\ UNCHANGED <<hv, mp, found>>
    /\ UNCHANGED dbVars

\* bbHashBuilder.Freeze up to the loop of singleThread: the salt is drawn
\* (a fresh oracle) and the state is set up
BBFreezeBeginStep ==
    /\ bld.kind = "bbhash"
    /\ bld.phase = "add"
    /\ bld' = [kind |-> "bbhash", keys |-> bld.keys, g |-> bld.g, phase |-> "build",
               s |-> newState(Len(bld.keys), bld.g), cur |-> bld.keys]
    /\ hv' = <<>>
    /\ UNCHANGED <<mp, found>>

BBFreezeBegin == BBFreezeBeginStep /\ UNCHANGED dbVars

\* one iteration of the loop of singleThread, and what follows the loop
BBLevelStep ==
    /\ bld.kind = "bbhash"
    /\ bld.phase = "build"
    /\ \E f \in [Unsampled(hv, LevelQueries(bld.cur, bld.s.lvl)) -> HashVals] :
         LET h == Extend(hv, f)
             r == singleThreadIter(bld.s, bld.cur, h, Len(bld.keys), bld.g)
         IN  /\ hv' = h
             /\ bld' = [bld EXCEPT !.s = r.s, !.cur = r.keys,
                                   !.phase = IF r.out = "next" THEN "build" ELSE r.out]
             /\ mp' = IF r.out = "done" THEN bbHashOf(r.s, Len(bld.keys), bld.g) ELSE mp
    /\ UNCHANGED found

BBLevel == BBLevelStep /\ UNCHANGED dbVars

\* MPH.Find(k) on the frozen bbHash
BBFindKey(k) ==
    /\ mp.kind = "bbhash"
    /\ ~bbFindPanics(mp)
    /\ \E f \in [Unsampled(hv, FindQueries(mp, k)) -> HashVals] :
         LET h == Extend(hv, f)
             r == bbFind(mp, h, k)
             asked == FindAsked(mp, h, k)
         IN  /\ hv' = Extend(hv, [q \in {q \in DOMAIN f : q \in asked} |-> f[q]])
             /\ found' = [key |-> k, idx |-> r[1], ok |-> r[2]]
    /\ UNCHANGED <<bld, mp>>
    /\ UNCHANGED dbVars

\* chdBuilder.Freeze up to its loop over the buckets
ChdFreezeBeginStep ==
    /\ bld.kind = "chd"
    /\ bld.phase = "add"
    /\ \E f \in [Unsampled(hv, {<<"c", 0, k>> : k \in Range(bld.keys)}) -> ChdHashVals] :
         LET h == Extend(hv, f)
         IN  /\ hv' = h
             /\ bld' = [kind |-> "chd", keys |-> bld.keys, g |-> bld.g, phase |-> "build",
                        c |-> chdBegin(bld.keys, h, bld.g)]
    /\ UNCHANGED <<mp, found>>

ChdFreezeBegin == ChdFreezeBeginStep /\ UNCHANGED dbVars

\* one seed tried on one bucket; past the last bucket Freeze returns the chd,
\* and out of seeds it fails.  The hash values of a seed that did not fit are
\* not kept: neither the construction nor Find evaluates them again.
ChdTryStep ==
    /\ bld.kind = "chd"
    /\ bld.phase = "build"
    /\ IF bld.c.bi > bld.c.m
       THEN /\ bld' = [bld EXCEPT !.phase = "done"]
            /\ mp' = chdOf(bld.c)
            /\ hv' = hv
       ELSE IF bld.c.sd >= MaxSeed
       THEN /\ bld' = [bld EXCEPT !.phase = "fail"]
            /\ UNCHANGED <<mp, hv>>
       ELSE \E f \in [Unsampled(hv, {<<"c", bld.c.sd, k>> :
                                        k \in Range(bld.c.buckets[bld.c.bi].keys)})
                          -> ChdHashVals] :
                LET h == Extend(hv, f)
                    c == chdTry(bld.c, h)
                IN  /\ hv' = IF c.bi > bld.c.bi THEN h ELSE hv
                    /\ bld' = [bld EXCEPT !.c = c]
                    /\ mp' = mp
    /\ UNCHANGED found

ChdTry == ChdTryStep /\ UNCHANGED dbVars

\* MPH.Find(k) on the frozen chd
ChdFindKey(k) ==
    /\ mp.kind = "chd"
    /\ ~chdFindPanics(mp)
    /\ \E f0 \in [Unsampled(hv, {<<"c", 0, k>>}) -> ChdHashVals] :
         \E f1 \in [Unsampled(Extend(hv, f0), ChdFindQueries(mp, Extend(hv, f0), k))
                      -> ChdHashVals] :
             LET h == Extend(Extend(hv, f0), f1)
                 r == chdFind(mp, h, k)
             IN  /\ hv' = h
                 /\ found' = [key |-> k, idx |-> r[1], ok |-> r[2]]
    /\ UNCHANGED <<bld, mp>>
    /\ UNCHANGED dbVars

\* the writer and the reader where only a builder is at work
NoDB ==
    /\ w = [state |-> 0] /\ kv = <<>> /\ ino = <<>> /\ fs = <<>> /\ fz = <<>>
    /\ ret = "" /\ faults = 0 /\ rd = <<>> /\ rret = <<>>

InitChd ==
    /\ NoDB
    /\ hv = <<>>
    /\ \E load \in Loads : bld = NewChdBuilder(load)
    /\ mp = NoMPH
    /\ found = NoFind

NextChd ==
    \/ \E k \in Keys : MphAdd(k)
    \/ ChdFreezeBegin
    \/ ChdTry
    \/ \E k \in Keys : ChdFindKey(k)

SpecChd == InitChd /\ [][NextChd]_vars

InitBB ==
    /\ NoDB
    /\ hv = <<>>
    /\ \E g \in Gammas : bld = NewBBHashBuilder(g)
    /\ mp = NoMPH
    /\ found = NoFind

NextBB ==
    \/ \E k \in Keys : MphAdd(k)
    \/ BBFreezeBegin
    \/ BBLevel
    \/ \E k \in Keys : BBFindKey(k)

SpecBB == InitBB /\ [][NextBB]_vars

\* an expansion factor of 1.0 or less handed to NewBBHashBuilder
LowGammas == {<<0, 1>>, <<1, 2>>, <<1, 1>>}

InitLowGamma ==
    /\ NoDB
    /\ hv = <<>>
    /\ \E g \in LowGammas : bld = NewBBHashBuilder(g)
    /\ mp = NoMPH
    /\ found = NoFind

SpecLowGamma == InitLowGamma /\ [][NextBB]_vars

\* ------------------------------------- the concurrent BBHash construction
\* keys[x:y] of shard worker i in state.concurrent
shard(keys, i) ==
    LET z == Len(keys) \div NCPU
        r == Len(keys) % NCPU
    IN  SubSeq(keys, (z * i) + 1, (z * i) + z + (IF i = NCPU - 1 THEN r ELSE 0))

\* the workers as a pass starts: each at the first key of its shard
Workers == [i \in 0 .. (NCPU - 1) |-> [pc |-> "coll", j |-> 1, redo |-> <<>>, x |-> 0]]

\* the position of the key worker i has at hand
posOf(b, h, i) ==
    bhash(h, shard(b.cur, i)[b.wk[i].j], b.s.lvl) % Size(b.s.A)

\* bbHashBuilder.Freeze: the salt is drawn (a fresh oracle) and the state set
\* up; more than MinParallelKeys keys start the workers of state.concurrent
\* on the first collision pass, fewer are built by state.singleThread
ParFreezeBegin ==
    /\ bld.kind = "bbhash"
    /\ bld.phase = "add"
    /\ LET n == Len(bld.keys)
           b == [kind |-> "bbhash", keys |-> bld.keys, g |-> bld.g, phase |-> "pre",
                 s |-> newState(n, bld.g), cur |-> bld.keys, wk |-> Workers]
       IN  IF n > MinParallelKeys
           THEN \E f \in [LevelQueries(bld.keys, 0) -> HashVals] :
                  /\ hv' = f
                  /\ bld' = b
                  /\ mp' = mp
           ELSE \E f \in [BBBuildQueries(bld.keys) -> HashVals] :
                  LET r == singleThread(b.s, bld.keys, f, n, bld.g, {})
                  IN  /\ hv' = Restrict(f, r.asked)
                      /\ bld' = [b EXCEPT !.phase = r.out, !.s = r.s, !.cur = <<>>]
                      /\ mp' = IF r.out = "done" THEN bbHashOf(r.s, n, bld.g) ELSE mp
    /\ UNCHANGED found
    /\ UNCHANGED dbVars

\* one step of worker i in preprocess: coll.IsSet, A.IsSet, coll.Set or A.Set,
\* each atomic under the mutex of its bit-vector
ParPreprocess(i) ==
    /\ bld.phase = "pre"
    /\ bld.wk[i].pc # "done"
    /\ LET me == bld.wk[i]
           x == posOf(bld, hv, i)
       IN  bld' =
             IF me.pc = "coll"
             THEN IF me.j > Len(shard(bld.cur, i)) THEN [bld EXCEPT !.wk[i].pc = "done"]
                  ELSE IF IsSet(bld.s.coll, x) THEN [bld EXCEPT !.wk[i].j = @ + 1]
                  ELSE [bld EXCEPT !.wk[i].pc = "a"]
             ELSE IF me.pc = "a"
             THEN IF IsSet(bld.s.A, x) THEN [bld EXCEPT !.wk[i].pc = "cset"]
                  ELSE [bld EXCEPT !.wk[i].pc = "set"]
             ELSE IF me.pc = "cset"
             THEN [bld EXCEPT !.s.coll = Set(@, x), !.wk[i].j = @ + 1, !.wk[i].pc = "coll"]
             ELSE [bld EXCEPT !.s.A = Set(@, x), !.wk[i].j = @ + 1, !.wk[i].pc = "coll"]
    /\ UNCHANGED <<hv, mp, found>>
    /\ UNCHANGED dbVars

\* the first synchronization point, and A.Reset()
ParBarrier1 ==
    /\ bld.phase = "pre"
    /\ \A i \in DOMAIN bld.wk : bld.wk[i].pc = "done"
    /\ bld' = [bld EXCEPT !.phase = "assign", !.s.A = Reset(@), !.wk = Workers]
    /\ UNCHANGED <<hv, mp, found>>
    /\ UNCHANGED dbVars

\* state.appendRedo as the keys of the level see it. nextLevel hands out
\* s.redo as the keys and truncates it with s.redo[:0]: from level 1 on the
\* keys and the redo list share one array (its capacity, bvSize, is never
\* exceeded for g >= 1), so the append of ks at the end of the list writes
\* over the keys at the same positions.
redoOver(cur, redo, ks, lvl) ==
    IF lvl = 0 THEN cur
    ELSE [p \in DOMAIN cur |->
            IF p > Len(redo) /\ p <= Len(redo) + Len(ks) THEN ks[p - Len(redo)] ELSE cur[p]]

\* one step of worker i in assign: the key is read and coll.IsSet tested,
\* then A.Set, and at the end of the shard appendRedo of the local redo list
ParAssign(i) ==
    /\ bld.phase = "assign"
    /\ bld.wk[i].pc # "done"
    /\ LET me == bld.wk[i]
           ks == shard(bld.cur, i)
           x == posOf(bld, hv, i)
       IN  bld' =
             IF me.pc = "coll"
             THEN IF me.j > Len(ks)
                  THEN [bld EXCEPT !.s.redo = @ \o me.redo, !.wk[i].pc = "done",
                                   !.cur = redoOver(@, bld.s.redo, me.redo, bld.s.lvl)]
                  ELSE IF IsSet(bld.s.coll, x)
                  THEN [bld EXCEPT !.wk[i].redo = Append(@, ks[me.j]), !.wk[i].j = @ + 1]
                  ELSE [bld EXCEPT !.wk[i].pc = "set", !.wk[i].x = x]
             ELSE [bld EXCEPT !.s.A = Set(@, me.x), !.wk[i].j = @ + 1, !.wk[i].pc = "coll",
                              !.wk[i].x = 0]
    /\ UNCHANGED <<hv, mp, found>>
    /\ UNCHANGED dbVars

\* the levels a serial construction entered at level lvl can reach: the
\* bound on the levels is tested after a level is built
LevelsFrom(lvl) == lvl .. (IF lvl > MaxLevel THEN lvl ELSE MaxLevel)

\* the second synchronization point and what follows it: nextLevel, then the
\* end, the serial construction of the rest, the failure, or one more
\* concurrent level
ParBarrier2 ==
    /\ bld.phase = "assign"
    /\ \A i \in DOMAIN bld.wk : bld.wk[i].pc = "done"
    /\ LET n == Len(bld.keys)
           nx == nextLevel(bld.s, n, bld.g)
       IN  IF nx[2] = <<>>
           THEN /\ bld' = [bld EXCEPT !.phase = "done", !.s = nx[1], !.cur = <<>>]
                /\ mp' = bbHashOf(nx[1], n, bld.g)
                /\ hv' = hv
           ELSE IF Len(nx[2]) < MinParallelKeys
           THEN \E f \in [UNION {LevelQueries(nx[2], l) : l \in LevelsFrom(nx[1].lvl)}
                             -> HashVals] :
                  LET r == singleThread(nx[1], nx[2], Extend(hv, f), n, bld.g, DOMAIN hv)
                  IN  /\ bld' = [bld EXCEPT !.phase = r.out, !.s = r.s, !.cur = <<>>]
                      /\ mp' = IF r.out = "done" THEN bbHashOf(r.s, n, bld.g) ELSE mp
                      /\ hv' = Restrict(Extend(hv, f), r.asked)
           ELSE IF nx[1].lvl > MaxLevel
           THEN /\ bld' = [bld EXCEPT !.phase = "fail", !.s = nx[1], !.cur = nx[2]]
                /\ UNCHANGED <<mp, hv>>
           ELSE \E f \in [LevelQueries(nx[2], nx[1].lvl) -> HashVals] :
                  /\ bld' = [bld EXCEPT !.phase = "pre", !.s = nx[1], !.cur = nx[2],
                                        !.wk = Workers]
                  /\ hv' = Extend(hv, f)
                  /\ mp' = mp
    /\ UNCHANGED found
    /\ UNCHANGED dbVars

InitPar ==
    /\ NoDB
    /\ hv = <<>>
    /\ \E g \in DBGammas : bld = NewBBHashBuilder(g)
    /\ mp = NoMPH
    /\ found = NoFind

NextPar ==
    \/ \E k \in Keys : MphAdd(k)
    \/ ParFreezeBegin
    \/ \E i \in 0 .. (NCPU - 1) : ParPreprocess(i)
    \/ ParBarrier1
    \/ \E i \in 0 .. (NCPU - 1) : ParAssign(i)
    \/ ParBarrier2
    \/ \E k \in Keys : BBFindKey(k)

SpecPar == InitPar /\ [][NextPar]_vars

\* -------------------------------------------------------------- bytes
\* A byte is <<"b", n>> with n its value, or one byte of a digest.  A file is
\* its size and its non-zero bytes by offset.
B(n) == <<"b", n>>

Z == B(0)

Zeros(n) == [j \in 1 .. n |-> Z]

\* the n bytes of v, least significant first; the model's numbers are < 2^24
LE(v, n) == [j \in 1 .. n |-> IF j > 3 THEN Z ELSE B((v \div (256 ^ (j - 1))) % 256)]

\* the n bytes of v, most significant first
BE(v, n) == [j \in 1 .. n |-> LE(v, n)[n + 1 - j]]

\* a number no field of the model holds: what bytes that are no small number decode to
Garbage == -1

FromLE(bs) ==
    IF /\ \A j \in DOMAIN bs : bs[j][1] = "b"
       /\ \A j \in DOMAIN bs : j > 3 => bs[j] = Z
    THEN SumSeq([j \in DOMAIN bs |-> IF j > 3 THEN 0 ELSE bs[j][2] * (256 ^ (j - 1))])
    ELSE Garbage

FromBE(bs) == FromLE([j \in DOMAIN bs |-> bs[Len(bs) + 1 - j]])

RECURSIVE Flatten(_)
Flatten(ss) == IF ss = <<>> THEN <<>> ELSE Head(ss) \o Flatten(Tail(ss))

\* siphash-2-4 keyed by salt over pre, as 8 big-endian bytes
SipHash(salt, pre) ==
    [j \in 1 .. 8 |-> IF j = 1 THEN <<"sip", 1, salt, pre>> ELSE <<"sip", j, <<>>, <<>>>>]

\* SHA-512/256 over pre: 32 bytes
Sha512_256(pre) ==
    [j \in 1 .. 32 |-> IF j = 1 THEN <<"sha", 1, pre>> ELSE <<"sha", j, <<>>>>]

NoFile == [size |-> -1, data |-> <<>>]

ByteAt(f, o) == IF o \in DOMAIN f.data THEN f.data[o] ELSE Z

ReadAt(f, off, n) == [j \in 1 .. n |-> ByteAt(f, off + j - 1)]

WriteAt(f, pos, bs) ==
    LET rng == pos .. (pos + Len(bs) - 1)
        nz  == {o \in rng : bs[o - pos + 1] # Z}
    IN  [size |-> IF pos + Len(bs) > f.size THEN pos + Len(bs) ELSE f.size,
         data |-> [o \in (DOMAIN f.data \ rng) \cup nz |->
                      IF o \in rng THEN bs[o - pos + 1] ELSE f.data[o]]]

\* --------------------------------------------------------- marshalling
\* the salt of the MPH (rand64) and of the DB (randbytes(16)): opaque bytes
MphSalt == [j \in 1 .. 8 |-> B(160 + j)]

DBSalt == [j \in 1 .. 16 |-> B(200 + j)]

\* one uint64 word of a bit-vector as 8 little-endian bytes
wordBytes(x) ==
    [j \in 1 .. 8 |-> B(SumSeq([b \in 1 .. 8 |-> IF ((j - 1) * 8 + b - 1) \in x
                                                THEN 2 ^ (b - 1) ELSE 0]))]

\* bitVector.MarshalBinary: the word count, then the words
bvMarshal(b) == LE(Words(b), 8) \o Flatten([k \in DOMAIN b |-> wordBytes(b[k])])

\* bbHash.MarshalBinary: what it writes
bbMarshal(m) ==
    <<B(1), Z, Z, Z>> \o LE(Len(m.bits), 4) \o MphSalt
      \o Flatten([l \in DOMAIN m.bits |-> bvMarshal(m.bits[l])])

\* bbHash.MarshalBinary: the count it returns (n already holds the header)
bbMarshalCount(m) == Len(bbMarshal(m)) + 16

\* chd.MarshalBinary: what it writes
chdMarshal(m) ==
    <<B(1), B(m.seedsize), Z, Z>> \o LE(chdLen(m), 4) \o MphSalt
      \o Flatten([j \in DOMAIN m.seed |-> LE(m.seed[j], m.seedsize)])

chdMarshalCount(m) == Len(chdMarshal(m))

\* the MPH interface
mphLen(m) == IF m.kind = "chd" THEN chdLen(m) ELSE bbLen(m)

mphFind(m, h, k) == IF m.kind = "chd" THEN chdFind(m, h, k) ELSE bbFind(m, h, k)

mphMarshal(m) == IF m.kind = "chd" THEN chdMarshal(m) ELSE bbMarshal(m)

mphMarshalCount(m) == IF m.kind = "chd" THEN chdMarshalCount(m) ELSE bbMarshalCount(m)

\* ------------------------------------------------------------ DBWriter
\* the values a record is added with: none, or one byte
Vals == {<<>>, <<B(7)>>}

\* the batches AddKeyVals is called with
BatchKeys == {ks \in DistinctSeqs(DBKeys, 2) : Len(ks) = 2} \cup {<<0, 0>>}

BatchVals == {<<<<B(7)>>>>, <<<<B(7)>>, <<>>>>, <<<<>>, <<B(7)>>>>}

\* os.Getpagesize()
PageSize == 4096

Magic(kind) == IF kind = "chd" THEN <<B(77), B(80), B(72), B(67)>>
                               ELSE <<B(77), B(80), B(72), B(66)>>

Ret(op, err, n) == [op |-> op, err |-> err, n |-> n]

IdleFz == [pc |-> "idle", ehdr |-> <<>>, h |-> <<>>]

\* the environment may fail one more I/O call
MayFault == faults < MaxFaults

\* newDBWriter: the temporary file holds 64 zero bytes, the final path nothing
newDBWriter ==
    /\ w = [state |-> 0, keymap |-> <<>>, off |-> 64, valSize |-> 0,
            fdopen |-> TRUE, fdpos |-> 64]
    /\ ino = [size |-> 64, data |-> <<>>]
    /\ fs = [tmp |-> TRUE, final |-> NoFile]
    /\ kv = <<>>
    /\ fz = IdleFz
    /\ ret = Ret("new", "nil", 0)
    /\ faults = 0

\* writeRecord on the bundle st = [w, keys, ino, err, added]: the checksum
\* over the offset and the value, then the value, at the position of the fd;
\* on a closed fd the write fails
writeRecord(st, val, off) ==
    LET c == SipHash(DBSalt, BE(off, 8) \o val)
    IN  IF ~st.w.fdopen
        THEN [st EXCEPT !.err = "ErrIO"]
        ELSE [st EXCEPT !.ino = WriteAt(st.ino, st.w.fdpos, c \o val),
                        !.w.fdpos = @ + 8 + Len(val),
                        !.w.off = @ + 8 + Len(val)]

\* addRecord (a modelled value is never longer than 2^32-1 bytes)
addRecord(st, key, val) ==
    IF key \in DOMAIN st.w.keymap
    THEN [st EXCEPT !.err = "ErrExists"]
    ELSE LET st1 == [st EXCEPT !.keys = Append(@, key),
                               !.w.keymap = (key :> [off |-> st.w.off, vlen |-> Len(val)]) @@ @]
         IN  IF Len(val) > 0
             THEN LET st2 == writeRecord(st1, val, st.w.off)
                  IN  IF st2.err # "nil" THEN st2
                      ELSE [st2 EXCEPT !.w.valSize = @ + Len(val), !.added = @ + 1]
             ELSE [st1 EXCEPT !.added = @ + 1]

Bundle == [w |-> w, keys |-> bld.keys, ino |-> ino, err |-> "nil", added |-> 0]

\* the loop of AddKeyVals from record i on: it stops at the first error
RECURSIVE addRecords(_, _, _, _, _)
addRecords(st, keys, vals, i, n) ==
    IF i > n \/ st.err # "nil" THEN st
    ELSE addRecords(addRecord(st, keys[i], vals[i]), keys, vals, i + 1, n)

\* an abort that marks the writer aborted whatever Remove and Close return
abortForced(ww, ff, f) ==
    [w |-> [ww EXCEPT !.fdopen = FALSE, !.state = -1],
     fs |-> [ff EXCEPT !.tmp = FALSE], ino |-> f, err |-> "nil"]

\* DBWriter.abort: remove the temporary name, close the fd, mark aborted;
\* the first call that fails ends it.  A file with no name and no open fd is gone.
abort(ww, ff, f) ==
    IF ~ff.tmp THEN [w |-> ww, fs |-> ff, ino |-> f, err |-> "ENOENT"]
    ELSE IF ~ww.fdopen
    THEN [w |-> ww, fs |-> [ff EXCEPT !.tmp = FALSE], ino |-> NoFile, err |-> "ErrClosed"]
    ELSE [w |-> [ww EXCEPT !.fdopen = FALSE, !.state = -1],
          fs |-> [ff EXCEPT !.tmp = FALSE], ino |-> NoFile, err |-> "nil"]

\* What the caller knows: the value each key was first added with, and
\* whether the key was handed to the writer once or more often.
Known(keys, vals, z) ==
    [k \in {keys[i] : i \in 1 .. z} |->
        [val |-> vals[CHOOSE i \in 1 .. z : keys[i] = k], adds |-> 1]]

Again(known, key) == [known EXCEPT ![key].adds = 2]

\* DBWriter.Add
Add(key, val) ==
    /\ fz.pc = "idle"
    /\ w.state # 0 \/ key \in DOMAIN w.keymap \/ Len(bld.keys) < MaxRecs
    /\ IF w.state # 0
       THEN /\ ret' = Ret("Add", "ErrFrozen", 0)
            /\ UNCHANGED <<w, bld, ino, kv, faults>>
       ELSE LET r == addRecord(Bundle, key, val)
            IN  /\ w' = r.w
                /\ bld' = [bld EXCEPT !.keys = r.keys]
                /\ ino' = r.ino
                /\ ret' = Ret("Add", r.err, 0)
                /\ kv' = IF r.err = "nil" THEN (key :> [val |-> val, adds |-> 1]) @@ kv
                         ELSE IF r.err = "ErrExists" THEN Again(kv, key)
                         ELSE kv
                /\ faults' = faults
    /\ UNCHANGED <<hv, mp, found, fs, fz, rd, rret>>

\* the body of DBWriter.AddKeyVals
addKeyVals(keys, vals) ==
    /\ IF w.state # 0
       THEN /\ ret' = Ret("AddKeyVals", "ErrFrozen", 0)
            /\ UNCHANGED <<w, bld, ino, kv, faults>>
       ELSE LET n == IF Len(vals) < Len(keys) THEN Len(vals) ELSE Len(keys)
                r == addRecords(Bundle, keys, vals, 1, n)
            IN  /\ w' = r.w
                /\ bld' = [bld EXCEPT !.keys = r.keys]
                /\ ino' = r.ino
                /\ ret' = Ret("AddKeyVals", r.err, r.added)
                /\ kv' = IF r.err = "ErrExists"
                         THEN Again(Known(keys, vals, r.added) @@ kv, keys[r.added + 1])
                         ELSE Known(keys, vals, r.added) @@ kv
                /\ faults' = faults
    /\ UNCHANGED <<hv, mp, found, fs, fz, rd, rret>>

\* DBWriter.AddKeyVals
AddKeyVals(keys, vals) ==
    /\ fz.pc = "idle"
    /\ w.state # 0 \/ Len(bld.keys) + Len(keys) <= MaxRecs
    /\ addKeyVals(keys, vals)

\* DBWriter.Abort
Abort ==
    /\ fz.pc = "idle"
    /\ IF w.state # 0
       THEN /\ ret' = Ret("Abort", "ErrFrozen", 0)
            /\ UNCHANGED <<w, fs, ino>>
       ELSE LET a == abort(w, fs, ino)
            IN  /\ w' = a.w
                /\ fs' = a.fs
                /\ ino' = a.ino
                /\ ret' = Ret("Abort", a.err, 0)
    /\ UNCHANGED <<hv, bld, mp, found, kv, fz, faults, rd, rret>>

\* ----------------------------------------------------- DBWriter.Freeze
\* Freeze returns err: the deferred abort runs first.  The MPH of a Freeze that
\* failed is dropped, and so is the oracle of a salt no later call hashes under:
\* the one of an aborted writer, and the one bbHashBuilder.Freeze drew.
FreezeFail(err, ww, h) ==
    LET a == abort(ww, fs, ino)
    IN  /\ w' = a.w
        /\ fs' = a.fs
        /\ ino' = a.ino
        /\ ret' = Ret("Freeze", err, 0)
        /\ fz' = IdleFz
        /\ mp' = IF w.state = 0 THEN NoMPH ELSE mp
        /\ hv' = IF w.state # 0 \/ (a.w.state = 0 /\ bld.kind = "chd") THEN h ELSE <<>>

\* a write, Sync, Close or Rename of Freeze fails: on a closed fd, or because
\* the environment fails it
IOFail(ww) ==
    /\ ~w.fdopen \/ MayFault
    /\ faults' = IF w.fdopen THEN faults + 1 ELSE faults
    /\ FreezeFail("ErrIO", ww, hv)

\* the loop of chdBuilder.Freeze over the buckets and the seeds, and the
\* arguments of rhash under the seeds it kept
RECURSIVE chdBuckets(_, _, _)
chdBuckets(c, h, asked) ==
    IF c.bi > c.m THEN [out |-> "done", c |-> c, asked |-> asked]
    ELSE IF c.sd >= MaxSeed THEN [out |-> "fail", c |-> c, asked |-> asked]
    ELSE LET c1 == chdTry(c, h)
         IN  chdBuckets(c1, h,
                 IF c1.bi > c.bi
                 THEN asked \cup {<<"c", c.sd, k>> : k \in Range(c.buckets[c.bi].keys)}
                 ELSE asked)

ChdBuildQueries(keys) == {<<"c", sd, k>> : sd \in 0 .. (MaxSeed - 1), k \in Range(keys)}

\* what Freeze does once w.bb.Freeze() has returned
FreezeBuilt(out, m, h, asked) ==
    /\ bld' = [bld EXCEPT !.phase = out]
    /\ IF out = "done"
       THEN /\ mp' = m
            /\ hv' = Restrict(h, asked)
            /\ fz' = [IdleFz EXCEPT !.pc = "pad"]
            /\ ret' = Ret("Freeze", "running", 0)
            /\ UNCHANGED <<w, fs, ino>>
       ELSE IF out = "fail"
       THEN FreezeFail("ErrMPHFail", w, h)
       ELSE /\ mp' = mp
            /\ hv' = Restrict(h, asked)
            /\ fz' = [IdleFz EXCEPT !.pc = "panic"]
            /\ ret' = Ret("Freeze", "panic", 0)
            /\ UNCHANGED <<w, fs, ino>>

\* Freeze on a writer that is not open returns ErrFrozen; on an open one
\* w.bb.Freeze() builds the MPH: BBHash under a fresh salt, CHD under the
\* salt of the builder
FreezeEnter ==
    /\ fz.pc = "idle"
    /\ IF w.state # 0
       THEN /\ FreezeFail("ErrFrozen", w, hv)
            /\ UNCHANGED bld
       ELSE IF bld.kind = "bbhash"
       THEN \E f \in [BBBuildQueries(bld.keys) -> DBHashVals] :
              LET n == Len(bld.keys)
                  r == singleThread(newState(n, bld.g), bld.keys, f, n, bld.g, {})
              IN  FreezeBuilt(r.out, bbHashOf(r.s, n, bld.g), f, r.asked)
       ELSE \E f \in [Unsampled(hv, ChdBuildQueries(bld.keys)) -> DBHashVals] :
              LET h == Extend(hv, f)
                  r == chdBuckets(chdBegin(bld.keys, h, bld.g), h,
                                  DOMAIN hv \cup {<<"c", 0, k>> : k \in Range(bld.keys)})
              IN  FreezeBuilt(r.out, chdOf(r.c), h, r.asked)
    /\ UNCHANGED <<found, kv, faults, rd, rret>>

pageAlign(off) == ((off + PageSize - 1) \div PageSize) * PageSize

\* a header left as newDBWriter wrote it
EhdrBlank(kind, valSize, nkeys, offtbl) == Zeros(64)

\* a header whose flags never say keys-only
EhdrValued(kind, valSize, nkeys, offtbl) ==
    Magic(kind) \o BE(0, 4) \o DBSalt \o BE(nkeys, 8) \o BE(offtbl, 8) \o Zeros(24)

\* the 64 bytes of the header: magic, flags, salt, nkeys, offtbl
Ehdr(kind, valSize, nkeys, offtbl) ==
    Magic(kind) \o BE(IF valSize = 0 THEN 1 ELSE 0, 4) \o DBSalt
      \o BE(nkeys, 8) \o BE(offtbl, 8) \o Zeros(24)

\* the padding up to the page boundary, and the header laid out and hashed
FreezePad ==
    /\ fz.pc = "pad"
    /\ LET offtbl == pageAlign(w.off)
           ehdr == Ehdr(mp.kind, w.valSize, mphLen(mp), offtbl)
       IN  \/ /\ w.fdopen \/ offtbl = w.off
              /\ ino' = IF offtbl > w.off
                        THEN WriteAt(ino, w.fdpos, Zeros(offtbl - w.off)) ELSE ino
              /\ w' = [w EXCEPT !.off = offtbl, !.fdpos = @ + (offtbl - w.off)]
              /\ fz' = [pc |-> "offsets", ehdr |-> ehdr, h |-> ehdr]
              /\ UNCHANGED <<hv, mp, fs, ret, faults>>
           \/ /\ offtbl > w.off
              /\ IOFail(w)
    /\ UNCHANGED <<bld, found, kv, rd, rret>>

\* the key of slot i of the tables, if a key has it
slotKeys(m, h, keymap, i) == {k \in DOMAIN keymap : mphFind(m, h, k)[1] = i}

\* marshalOffsets and marshalKeys: the bytes of the tables
offsetBytes(m, h, keymap, valSize) ==
    LET n == mphLen(m)
        key(i) == IF slotKeys(m, h, keymap, i) = {} THEN 0
                  ELSE CHOOSE k \in slotKeys(m, h, keymap, i) : TRUE
        off(i) == IF slotKeys(m, h, keymap, i) = {} THEN 0 ELSE keymap[key(i)].off
        vlen(i) == IF slotKeys(m, h, keymap, i) = {} THEN 0 ELSE keymap[key(i)].vlen
    IN  IF valSize = 0
        THEN Flatten([i \in 1 .. n |-> LE(key(i - 1), 8)])
        ELSE Flatten([i \in 1 .. n |-> LE(key(i - 1), 8) \o LE(off(i - 1), 8)])
               \o Flatten([i \in 1 .. n |-> LE(vlen(i - 1), 4)])

align8(off) == ((off + 7) \div 8) * 8

\* the tables and the padding to the next 8 bytes, to the file and the hash
FreezeOffsets ==
    /\ fz.pc = "offsets"
    /\ LET bs == offsetBytes(mp, hv, w.keymap, w.valSize)
           off == w.off + Len(bs)
           out == bs \o Zeros(align8(off) - off)
       IN  IF \E k \in DOMAIN w.keymap : ~mphFind(mp, hv, k)[2]
           THEN /\ FreezeFail("can't find key", w, hv)
                /\ UNCHANGED faults
           ELSE \/ /\ w.fdopen
                   /\ ino' = WriteAt(ino, w.fdpos, out)
                   /\ w' = [w EXCEPT !.off = align8(off), !.fdpos = @ + Len(out)]
                   /\ fz' = [fz EXCEPT !.pc = "marshal", !.h = @ \o out]
                   /\ UNCHANGED <<hv, mp, fs, ret, faults>>
                \/ IOFail(w)
    /\ UNCHANGED <<bld, found, kv, rd, rret>>

\* the MPH marshalled to the file and the hash, then the trailer: the
\* SHA512-256 of all that was hashed
FreezeMarshal ==
    /\ fz.pc = "marshal"
    /\ LET bs == mphMarshal(mp)
           cksum == Sha512_256(fz.h \o bs)
       IN  \/ /\ w.fdopen
              /\ ino' = WriteAt(ino, w.fdpos, bs \o cksum)
              /\ w' = [w EXCEPT !.off = @ + mphMarshalCount(mp),
                                !.fdpos = @ + Len(bs) + Len(cksum)]
              /\ fz' = [fz EXCEPT !.pc = "header", !.h = @ \o bs]
              /\ UNCHANGED <<hv, mp, fs, ret, faults>>
           \/ IOFail(w)
    /\ UNCHANGED <<bld, found, kv, rd, rret>>

\* Seek(0, 0), the header written at the start of the file, Sync
FreezeHeader ==
    /\ fz.pc = "header"
    /\ \/ /\ w.fdopen
          /\ ino' = WriteAt(ino, 0, fz.ehdr)
          /\ w' = [w EXCEPT !.fdpos = Len(fz.ehdr)]
          /\ fz' = [fz EXCEPT !.pc = "close"]
          /\ UNCHANGED <<hv, mp, fs, ret, faults>>
       \/ IOFail(w)
    /\ UNCHANGED <<bld, found, kv, rd, rret>>

\* w.fd.Close(): the fd is closed whether Close returns an error or not
FreezeClose ==
    /\ fz.pc = "close"
    /\ \/ /\ w.fdopen
          /\ w' = [w EXCEPT !.fdopen = FALSE]
          /\ fz' = [fz EXCEPT !.pc = "rename"]
          /\ UNCHANGED <<hv, mp, fs, ino, ret, faults>>
       \/ IOFail([w EXCEPT !.fdopen = FALSE])
    /\ UNCHANGED <<bld, found, kv, rd, rret>>

\* os.Rename(w.fntmp, w.fn), and the writer is frozen
FreezeRename ==
    /\ fz.pc = "rename"
    /\ \/ /\ fs.tmp
          /\ fs' = [tmp |-> FALSE, final |-> ino]
          /\ w' = [w EXCEPT !.state = 1]
          /\ ret' = Ret("Freeze", "nil", 0)
          /\ fz' = IdleFz
          /\ UNCHANGED <<hv, mp, ino, faults>>
       \/ /\ ~fs.tmp \/ MayFault
          /\ faults' = IF fs.tmp THEN faults + 1 ELSE faults
          /\ FreezeFail("ErrIO", w, hv)
    /\ UNCHANGED <<bld, found, kv, rd, rret>>

\* ------------------------------------------------------------ DBReader
\* bsToUint64Slice and the like on a little-endian host: the numbers of w bytes each
toUints(bs, width) ==
    [i \in 1 .. (Len(bs) \div width) |-> FromLE(SubSeq(bs, (i - 1) * width + 1, i * width))]

\* one uint64 word of a bit-vector from its 8 bytes
wordOf(bs) ==
    {b \in 0 .. 63 : bs[(b \div 8) + 1][1] = "b" /\ (bs[(b \div 8) + 1][2] \div (2 ^ (b % 8))) % 2 = 1}

\* unmarshalBitVector cnt times over buf: the bit-vectors, or the error
RECURSIVE unmarshalBitVectors(_, _, _)
unmarshalBitVectors(buf, cnt, acc) ==
    IF cnt = 0 THEN [err |-> "nil", bits |-> acc]
    ELSE IF Len(buf) < 8 THEN [err |-> "panic", bits |-> acc]
    ELSE LET bvlen == FromLE(SubSeq(buf, 1, 8))
         IN  IF bvlen = 0 \/ bvlen = Garbage THEN [err |-> "bitvect length", bits |-> acc]
             ELSE IF 8 + (8 * bvlen) > Len(buf) THEN [err |-> "panic", bits |-> acc]
             ELSE unmarshalBitVectors(
                      SubSeq(buf, 9 + (8 * bvlen), Len(buf)), cnt - 1,
                      Append(acc, [j \in 1 .. bvlen |->
                                      wordOf(SubSeq(buf, 1 + (8 * j), 8 + (8 * j)))]))

\* newBBHash: the bbHash of the marshalled bytes, or the error
newBBHash(buf) ==
    IF Len(buf) < 16 THEN [err |-> "panic"]
    ELSE LET ver == buf[1]
             bv == FromLE(SubSeq(buf, 5, 8))
             salt == SubSeq(buf, 9, 16)
             r == unmarshalBitVectors(SubSeq(buf, 17, Len(buf)), bv, <<>>)
         IN  IF ver # B(1) THEN [err |-> "version"]
             ELSE IF bv = 0 \/ bv = Garbage \/ bv > MaxLevel THEN [err |-> "too many levels"]
             ELSE IF r.err # "nil" THEN [err |-> r.err]
             ELSE [err |-> "nil", salt |-> salt,
                   mph |-> [kind |-> "bbhash", bits |-> r.bits,
                            ranks |-> preComputeRank(r.bits), n |-> 0, g |-> <<0, 1>>]]

\* newChd: the chd of the marshalled bytes, or the error
newChd(buf) ==
    IF Len(buf) < 16 THEN [err |-> "ErrTooSmall"]
    ELSE LET size == buf[2]
             n == FromLE(SubSeq(buf, 5, 8))
             salt == SubSeq(buf, 9, 16)
         IN  IF buf[1] # B(1) THEN [err |-> "version"]
             ELSE IF n = Garbage \/ size[1] # "b" \/ 16 + (n * size[2]) > Len(buf)
             THEN [err |-> "panic"]
             ELSE IF size[2] \notin {1, 2, 4} THEN [err |-> "seed-size"]
             ELSE [err |-> "nil", salt |-> salt,
                   mph |-> [kind |-> "chd",
                            seed |-> toUints(SubSeq(buf, 17, 16 + (n * size[2])), size[2]),
                            seedsize |-> size[2], tries |-> 0]]

NoReader == [st |-> "none"]

ReaderErr(e) == [st |-> "err", err |-> e]

\* decodeHeader: the fields of the 64 bytes b
decodeHeader(b, sz) ==
    LET offtbl == FromBE(SubSeq(b, 33, 40))
    IN  [err |-> IF SubSeq(b, 1, 4) \notin {Magic("chd"), Magic("bbhash")} THEN "bad file magic"
                 ELSE IF offtbl < 64 \/ offtbl >= sz - 32 THEN "corrupt header0"
                 ELSE "nil",
         magic |-> SubSeq(b, 1, 4),
         flags |-> FromBE(SubSeq(b, 5, 8)),
         salt |-> SubSeq(b, 9, 24),
         nkeys |-> FromBE(SubSeq(b, 25, 32)),
         offtbl |-> offtbl]

\* verifyChecksum: the hash of the header and the metadata is the trailer
verifyChecksum(f, hdrb, offtbl) ==
    Sha512_256(hdrb \o ReadAt(f, offtbl, f.size - offtbl - 32)) = ReadAt(f, f.size - 32, 32)

\* NewDBReader on the file f at the path: the reader, or the error
NewDBReader(f) ==
    IF f = NoFile THEN ReaderErr("ENOENT")
    ELSE IF f.size < 64 + 32 THEN ReaderErr("file too small")
    ELSE LET hdrb == ReadAt(f, 0, 64)
             hd == decodeHeader(hdrb, f.size)
             keysOnly == hd.flags % 2 = 1
             tblsz == hd.nkeys * (IF keysOnly THEN 8 ELSE 20)
             offsz == hd.nkeys * (IF keysOnly THEN 8 ELSE 16)
             vlensz == IF keysOnly THEN 0 ELSE hd.nkeys * 4
             bs == ReadAt(f, hd.offtbl, f.size - hd.offtbl - 32)
             m == IF hd.magic = Magic("chd")
                  THEN newChd(SubSeq(bs, offsz + vlensz + 1, Len(bs)))
                  ELSE newBBHash(SubSeq(bs, offsz + vlensz + 1, Len(bs)))
         IN  IF hd.err # "nil" THEN ReaderErr(hd.err)
             ELSE IF ~verifyChecksum(f, hdrb, hd.offtbl) THEN ReaderErr("checksum failure")
             ELSE IF f.size < 64 + 32 + tblsz THEN ReaderErr("corrupt header1")
             ELSE IF offsz + vlensz > Len(bs) THEN ReaderErr("panic")
             ELSE IF m.err # "nil" THEN ReaderErr(m.err)
             ELSE [st |-> "open", flags |-> hd.flags, salt |-> hd.salt, nkeys |-> hd.nkeys,
                   offset |-> toUints(SubSeq(bs, 1, offsz), 8),
                   vlen |-> toUints(SubSeq(bs, offsz + 1, offsz + vlensz), 4),
                   mph |-> m.mph, mphsalt |-> m.salt, cache |-> <<>>]

\* io.ReadFull of n bytes at the position pos of the file f
readFull(f, pos, n) ==
    IF pos + n > f.size THEN [err |-> "EOF", data |-> <<>>]
    ELSE [err |-> "nil", data |-> ReadAt(f, pos, n)]

\* a decodeRecord that returns the bytes read without a look at the checksum
checkNone(salt, off, data) == [err |-> "nil", val |-> SubSeq(data, 9, Len(data))]

\* the end of decodeRecord: the checksum of the record read as data, against
\* the one computed over the offset and the value
checkRecord(salt, off, data) ==
    LET val == SubSeq(data, 9, Len(data))
    IN  IF SubSeq(data, 1, 8) # SipHash(salt, BE(off, 8) \o val)
        THEN [err |-> "corrupted record", val |-> <<>>]
        ELSE [err |-> "nil", val |-> val]

\* decodeRecord on the file f, undisturbed: Seek to off, the vlen + 8 bytes
\* read there, the checksum verified
decodeRecord(f, salt, off, vlen) ==
    IF off = Garbage \/ vlen = Garbage THEN [err |-> "alien", val |-> <<>>]
    ELSE LET r == readFull(f, off, vlen + 8)
         IN  IF r.err # "nil" THEN [err |-> r.err, val |-> <<>>]
             ELSE checkRecord(salt, off, r.data)

\* DBReader.Find from the MPH to the tables, under the oracle h: the error,
\* or the place of the record that decodeRecord is to read (io)
lookup(r, h, key) ==
    LET ix == mphFind(r.mph, h, key)
        i == ix[1]
        keysOnly == r.flags % 2 = 1
        j == i * 2
        end(e) == [err |-> e, io |-> FALSE, off |-> 0, vlen |-> 0]
    IN  IF ~ix[2] THEN end("ErrNoKey")
        ELSE IF keysOnly
        THEN IF i + 1 > Len(r.offset) THEN end("panic")
             ELSE IF r.offset[i + 1] # key THEN end("ErrNoKey")
             ELSE end("nil")
        ELSE IF j + 2 > Len(r.offset) \/ i + 1 > Len(r.vlen) THEN end("panic")
        ELSE IF r.offset[j + 1] # key THEN end("ErrNoKey")
        ELSE [err |-> "nil", io |-> TRUE, off |-> r.offset[j + 2], vlen |-> r.vlen[i + 1]]

\* DBReader.Find past the cache, under the oracle h: the value and the error
dbFind(r, f, h, key) ==
    LET l == lookup(r, h, key)
    IN  IF l.io THEN decodeRecord(f, r.salt, l.off, l.vlen)
        ELSE [err |-> l.err, val |-> <<>>]

mphFindPanics(m) == IF m.kind = "chd" THEN chdFindPanics(m) ELSE bbFindPanics(m)

\* what Find(key) returns and leaves in the cache, given the result of dbFind
FindReturns(key, r) ==
    /\ rret' = [key |-> key, err |-> r.err, val |-> r.val]
    /\ rd' = IF r.err = "nil" THEN [rd EXCEPT !.cache = (key :> r.val) @@ @] ELSE rd

\* NewDBReader(fn): while the path does not exist it returns an error and no reader
OpenReader ==
    /\ rd.st # "open"
    /\ rd' = IF fs.final = NoFile THEN rd ELSE NewDBReader(fs.final)
    /\ UNCHANGED <<hv, bld, mp, found, w, kv, ino, fs, fz, ret, faults, rret>>

\* DBReader.Find(key)
Find(key) ==
    /\ rd.st = "open"
    /\ rd.mphsalt = MphSalt
    /\ IF key \in DOMAIN rd.cache
       THEN /\ rret' = [key |-> key, err |-> "nil", val |-> rd.cache[key]]
            /\ UNCHANGED <<rd, hv>>
       ELSE IF mphFindPanics(rd.mph)
       THEN /\ rret' = [key |-> key, err |-> "panic", val |-> <<>>]
            /\ UNCHANGED <<rd, hv>>
       ELSE IF rd.mph.kind = "bbhash"
       THEN \E f \in [Unsampled(hv, FindQueries(rd.mph, key)) -> DBHashVals] :
              LET h == Extend(hv, f)
                  asked == FindAsked(rd.mph, h, key)
              IN  /\ hv' = Extend(hv, [q \in {q \in DOMAIN f : q \in asked} |-> f[q]])
                  /\ FindReturns(key, dbFind(rd, fs.final, h, key))
       ELSE \E f0 \in [Unsampled(hv, {<<"c", 0, key>>}) -> DBHashVals] :
              \E f1 \in [Unsampled(Extend(hv, f0),
                                   ChdFindQueries(rd.mph, Extend(hv, f0), key))
                           -> DBHashVals] :
                LET h == Extend(Extend(hv, f0), f1)
                IN  /\ hv' = h
                    /\ FindReturns(key, dbFind(rd, fs.final, h, key))
    /\ UNCHANGED <<bld, mp, found, w, kv, ino, fs, fz, ret, faults>>

\* ------------------------------------------------- a writer and a reader
Init ==
    /\ hv = <<>>
    /\ \/ \E load \in Loads : bld = NewChdBuilder(load)
       \/ \E g \in DBGammas : bld = NewBBHashBuilder(g)
    /\ mp = NoMPH
    /\ found = NoFind
    /\ newDBWriter
    /\ rd = NoReader
    /\ rret = [key |-> -1, err |-> "none", val |-> <<>>]

Next ==
    \/ \E key \in DBKeys, val \in Vals : Add(key, val)
    \/ \E keys \in BatchKeys, vals \in BatchVals : AddKeyVals(keys, vals)
    \/ Abort
    \/ FreezeEnter
    \/ FreezePad
    \/ FreezeOffsets
    \/ FreezeMarshal
    \/ FreezeHeader
    \/ FreezeClose
    \/ FreezeRename
    \/ OpenReader
    \/ \E key \in DBKeys : Find(key)

Spec == Init /\ [][Next]_vars

\* ------------------------------------------ a writer given whole batches
\* the key slices handed to AddKeyVals: of one to three keys, any of them
\* repeated; the value slices: of two or three values
Batches == UNION {[1 .. n -> DBKeys] : n \in 1 .. 3}

BatchValues == [1 .. 2 -> Vals] \cup [1 .. 3 -> Vals]

\* DBWriter.AddKeyVals on slices of any lengths
AddBatch(keys, vals) ==
    /\ fz.pc = "idle"
    /\ addKeyVals(keys, vals)

NextBatch ==
    \/ \E key \in DBKeys, val \in Vals : Add(key, val)
    \/ \E keys \in Batches, vals \in BatchValues : AddBatch(keys, vals)
    \/ Abort

SpecBatch == Init /\ [][NextBatch]_vars

\* ------------------------------------------- a reader that also iterates
RECURSIVE iterFrom(_, _, _, _)
\* the loop of IterFunc from the slot i on, fp returning nil: the calls of
\* fp made so far, in order, and the error that ends the loop
iterFrom(r, f, i, calls) ==
    IF i >= r.nkeys THEN [err |-> "nil", calls |-> calls]
    ELSE IF r.flags % 2 = 1
    THEN LET k == r.offset[i + 1]
         IN  IF k = 0 THEN iterFrom(r, f, i + 1, calls)
             ELSE iterFrom(r, f, i + 1, Append(calls, <<k, <<>>>>))
    ELSE LET k == r.offset[2 * i + 1]
             rec == decodeRecord(f, r.salt, r.offset[2 * i + 2], r.vlen[i + 1])
         IN  IF k = 0 THEN iterFrom(r, f, i + 1, calls)
             ELSE IF rec.err # "nil" THEN [err |-> "iter: read-record", calls |-> calls]
             ELSE iterFrom(r, f, i + 1, Append(calls, <<k, rec.val>>))

\* DBReader.Len
dbLen(r) == r.nkeys

\* DBReader.IterFunc(fp) with an fp that records its arguments and returns
\* nil: rret holds the error returned and the calls made (key -2: no Find)
IterFunc ==
    /\ rd.st = "open"
    /\ LET it == iterFrom(rd, fs.final, 0, <<>>)
       IN  rret' = [key |-> -2, err |-> it.err, val |-> it.calls]
    /\ UNCHANGED <<hv, bld, mp, found, w, kv, ino, fs, fz, ret, faults, rd>>

NextIter == Next \/ IterFunc

SpecIter == Init /\ [][NextIter]_vars

\* ------------------------------------ CHD under load factors below one
\* load factors that do not divide the key counts: 0.75 and 0.85
FineLoads == {<<3, 4>>, <<17, 20>>}

InitFineLoad ==
    /\ NoDB
    /\ hv = <<>>
    /\ \E load \in FineLoads : bld = NewChdBuilder(load)
    /\ mp = NoMPH
    /\ found = NoFind

SpecFineLoad == InitFineLoad /\ [][NextChd]_vars

\* --------------------------------------- either builder, standing alone
\* errors.go: the error named for a construction that fails
ErrMPHFail == "failed to build MPH"

\* the error that Freeze of the builder b returns
freezeErr(b) ==
    IF b.phase # "fail" THEN "nil"
    ELSE IF b.kind = "chd" THEN "chd: No MPH after tries"
    ELSE "can't find minimal perf hash after tries"

InitMph == InitBB \/ InitChd

NextMph == NextBB \/ NextChd

SpecMph == InitMph /\ [][NextMph]_vars

\* newBBHash or newChd over what MarshalBinary of the MPH m wrote
unmarshalOf(m) == IF m.kind = "chd" THEN newChd(chdMarshal(m)) ELSE newBBHash(bbMarshal(m))

\* ----------------------------------- unmarshalling a buffer cut short
\* newChd or newBBHash over the first n bytes of what MarshalBinary of m wrote
unmarshalShort(m, n) ==
    IF m.kind = "chd" THEN newChd(SubSeq(chdMarshal(m), 1, n))
    ELSE newBBHash(SubSeq(bbMarshal(m), 1, n))

\* the MPH is marshalled and a prefix of the bytes is unmarshalled: rd holds
\* the length of the prefix, the length of the whole and the outcome
UnmarshalShort ==
    /\ mp.kind \in {"chd", "bbhash"}
    /\ rd = <<>>
    /\ \E n \in 0 .. Len(mphMarshal(mp)) :
         rd' = [len |-> n, full |-> Len(mphMarshal(mp)), err |-> unmarshalShort(mp, n).err]
    /\ UNCHANGED <<hv, bld, mp, found, w, kv, ino, fs, fz, ret, faults, rret>>

NextShort ==
    \/ \E k \in Keys : MphAdd(k)
    \/ BBFreezeBegin
    \/ BBLevel
    \/ ChdFreezeBegin
    \/ ChdTry
    \/ UnmarshalShort

SpecShort == InitMph /\ [][NextShort]_vars

\* ------------------------------------ threads that share one DBReader
\* The writer has added the keys with the values and Freeze has returned
\* nil; NewDBReader has opened the file.  rd carries the position of rd.fd
\* (fdpos), rret the threads: where each is in Find, and what its last
\* call returned.
RdKeys == {<<0>>, <<0, 1>>}

\* the file that the steps of Freeze leave from the writer ww and its file
\* f, the MPH m built under h, when no I/O call fails
frozenFile(ww, f, m, h) ==
    LET offtbl == pageAlign(ww.off)
        ehdr == Ehdr(m.kind, ww.valSize, mphLen(m), offtbl)
        tbl == offsetBytes(m, h, ww.keymap, ww.valSize)
        meta == tbl \o Zeros(align8(offtbl + Len(tbl)) - (offtbl + Len(tbl))) \o mphMarshal(m)
        padded == IF offtbl > ww.off THEN WriteAt(f, ww.fdpos, Zeros(offtbl - ww.off)) ELSE f
    IN  WriteAt(WriteAt(padded, offtbl, meta \o Sha512_256(ehdr \o meta)), 0, ehdr)

\* the writer once Freeze has returned nil
frozenWriter(ww, m) ==
    LET tbl == mphLen(m) * (IF ww.valSize = 0 THEN 8 ELSE 20)
    IN  [ww EXCEPT !.state = 1, !.fdopen = FALSE, !.fdpos = 64,
                   !.off = align8(pageAlign(ww.off) + tbl) + mphMarshalCount(m)]

Threads == 1 .. NThreads

IdleThread == [pc |-> "idle", key |-> -1, off |-> 0, vlen |-> 0, data |-> <<>>,
               err |-> "none", val |-> <<>>]

\* the thread t as its call of Find returns
Returned(t, key, err, val) ==
    [rret EXCEPT ![t] = [IdleThread EXCEPT !.pc = "ret", !.key = key, !.err = err, !.val = val]]

InitRd ==
    \E keys \in RdKeys, g \in DBGammas :
      \E vals \in [DOMAIN keys -> Vals], f \in [BBBuildQueries(keys) -> DBHashVals] :
        LET n == Len(keys)
            w0 == [state |-> 0, keymap |-> <<>>, off |-> 64, valSize |-> 0,
                   fdopen |-> TRUE, fdpos |-> 64]
            st == addRecords([w |-> w0, keys |-> <<>>, ino |-> [size |-> 64, data |-> <<>>],
                              err |-> "nil", added |-> 0], keys, vals, 1, n)
            r == singleThread(newState(n, g), keys, f, n, g, {})
            m == bbHashOf(r.s, n, g)
            h == Restrict(f, r.asked)
            file == frozenFile(st.w, st.ino, m, h)
            reader == NewDBReader(file)
        IN  /\ r.out = "done"
            /\ reader.st = "open"
            /\ hv = h
            /\ bld = [kind |-> "bbhash", keys |-> keys, g |-> g, phase |-> "done"]
            /\ mp = m
            /\ found = NoFind
            /\ w = frozenWriter(st.w, m)
            /\ kv = Known(keys, vals, n)
            /\ ino = file
            /\ fs = [tmp |-> FALSE, final |-> file]
            /\ fz = IdleFz
            /\ ret = Ret("Freeze", "nil", 0)
            /\ faults = 0
            /\ rd = [fdpos |-> decodeHeader(ReadAt(file, 0, 64), file.size).offtbl] @@ reader
            /\ rret = [t \in Threads |-> IdleThread]

\* thread t calls Find(key): the cache lookup and, past the cache, the MPH
\* and the tables, up to the call of decodeRecord
RdFind(t, key) ==
    /\ rret[t].pc \in {"idle", "ret"}
    /\ IF key \in DOMAIN rd.cache
       THEN /\ rret' = Returned(t, key, "nil", rd.cache[key])
            /\ UNCHANGED <<rd, hv>>
       ELSE \E f \in [Unsampled(hv, FindQueries(rd.mph, key)) -> DBHashVals] :
              LET h == Extend(hv, f)
                  asked == FindAsked(rd.mph, h, key)
                  l == lookup(rd, h, key)
              IN  /\ hv' = Extend(hv, [q \in {q \in DOMAIN f : q \in asked} |-> f[q]])
                  /\ IF l.io
                     THEN /\ rret' = [rret EXCEPT ![t] = [IdleThread EXCEPT !.pc = "seek",
                                         !.key = key, !.off = l.off, !.vlen = l.vlen]]
                          /\ rd' = rd
                     ELSE /\ rret' = Returned(t, key, l.err, <<>>)
                          /\ rd' = IF l.err = "nil"
                                   THEN [rd EXCEPT !.cache = (key :> <<>>) @@ @] ELSE rd
    /\ UNCHANGED <<bld, mp, found, w, kv, ino, fs, fz, ret, faults>>

\* decodeRecord of thread t: rd.fd.Seek(off, 0)
RdSeek(t) ==
    /\ rret[t].pc = "seek"
    /\ rd' = [rd EXCEPT !.fdpos = rret[t].off]
    /\ rret' = [rret EXCEPT ![t].pc = "read"]
    /\ UNCHANGED <<hv, bld, mp, found, w, kv, ino, fs, fz, ret, faults>>

\* decodeRecord of thread t: io.ReadFull(rd.fd, data), at the position the fd has
RdRead(t) ==
    /\ rret[t].pc = "read"
    /\ LET n == rret[t].vlen + 8
           r == readFull(fs.final, rd.fdpos, n)
       IN  IF r.err # "nil"
           THEN /\ rd' = [rd EXCEPT !.fdpos = fs.final.size]
                /\ rret' = Returned(t, rret[t].key, r.err, <<>>)
           ELSE /\ rd' = [rd EXCEPT !.fdpos = @ + n]
                /\ rret' = [rret EXCEPT ![t].pc = "cksum", ![t].data = r.data]
    /\ UNCHANGED <<hv, bld, mp, found, w, kv, ino, fs, fz, ret, faults>>

\* decodeRecord of thread t: the checksum; then Find adds the value to the
\* cache and returns it
RdChecksum(t) ==
    /\ rret[t].pc = "cksum"
    /\ LET c == checkRecord(rd.salt, rret[t].off, rret[t].data)
       IN  /\ rret' = Returned(t, rret[t].key, c.err, c.val)
           /\ rd' = IF c.err = "nil"
                    THEN [rd EXCEPT !.cache = (rret[t].key :> c.val) @@ @] ELSE rd
    /\ UNCHANGED <<hv, bld, mp, found, w, kv, ino, fs, fz, ret, faults>>

NextRd ==
    \/ \E t \in Threads, key \in DBKeys : RdFind(t, key)
    \/ \E t \in Threads : RdSeek(t)
    \/ \E t \in Threads : RdRead(t)
    \/ \E t \in Threads : RdChecksum(t)

SpecRd == InitRd /\ [][NextRd]_vars

\* ---------------------------------------------- a file damaged on disk
\* The writer has added the keys with the values and Freeze has returned
\* nil: ino is the file as Freeze wrote it, fs.final what the path holds.
Frozen(keys, vals, g, f) ==
    LET n == Len(keys)
        w0 == [state |-> 0, keymap |-> <<>>, off |-> 64, valSize |-> 0,
               fdopen |-> TRUE, fdpos |-> 64]
        st == addRecords([w |-> w0, keys |-> <<>>, ino |-> [size |-> 64, data |-> <<>>],
                          err |-> "nil", added |-> 0], keys, vals, 1, n)
        r == singleThread(newState(n, g), keys, f, n, g, {})
        m == bbHashOf(r.s, n, g)
        h == Restrict(f, r.asked)
        file == frozenFile(st.w, st.ino, m, h)
    IN  /\ r.out = "done"
        /\ hv = h
        /\ bld = [kind |-> "bbhash", keys |-> keys, g |-> g, phase |-> "done"]
        /\ mp = m
        /\ found = NoFind
        /\ w = frozenWriter(st.w, m)
        /\ kv = Known(keys, vals, n)
        /\ ino = file
        /\ fs = [tmp |-> FALSE, final |-> file]
        /\ fz = IdleFz
        /\ ret = Ret("Freeze", "nil", 0)
        /\ faults = 0

\* the end of the value records: where the padding to the page begins
recordsEnd(ww) ==
    64 + ww.valSize + (8 * Cardinality({k \in DOMAIN ww.keymap : ww.keymap[k].vlen > 0}))

\* the positions before the trailer where a byte is changed: the header, the
\* records, the ends of the padding, and all from the offset table on
DamageAt(f, ww) ==
    LET offtbl == pageAlign(recordsEnd(ww))
    IN  (0 .. (recordsEnd(ww) - 1))
          \cup {o \in {recordsEnd(ww), offtbl - 1} : o < offtbl}
          \cup (offtbl .. (f.size - 33))

\* a byte other than b
Other(b, d) == IF b[1] = "b" THEN B((b[2] + d) % 256) ELSE B(d)

\* one byte of the file at the path changes, before a reader opens it
Damage(pos, d) ==
    /\ rd.st = "none"
    /\ fs.final = ino
    /\ fs' = [fs EXCEPT !.final = WriteAt(ino, pos, <<Other(ByteAt(ino, pos), d)>>)]
    /\ UNCHANGED <<hv, bld, mp, found, w, kv, ino, fz, ret, faults, rd, rret>>

InitDamage ==
    /\ \E keys \in RdKeys, g \in DBGammas :
         \E vals \in [DOMAIN keys -> Vals], f \in [BBBuildQueries(keys) -> DBHashVals] :
           Frozen(keys, vals, g, f)
    /\ rd = NoReader
    /\ rret = [key |-> -1, err |-> "none", val |-> <<>>]

NextDamage ==
    \/ \E pos \in DamageAt(ino, w), d \in {1, 128} : Damage(pos, d)
    \/ OpenReader
    \/ \E key \in DBKeys : Find(key)

SpecDamage == InitDamage /\ [][NextDamage]_vars

\* ------------------------------------------- values known by their length
\* A uint64 as <<hi, lo>>, standing for hi * 2^16 + lo with lo < 2^16; the
\* lengths and offsets here stay far below 2^47.
Limb == 65536

wide(n) == <<n \div Limb, n % Limb>>

wadd(a, b) == <<a[1] + b[1] + ((a[2] + b[2]) \div Limb), (a[2] + b[2]) % Limb>>

wgt(a, b) == a[1] > b[1] \/ (a[1] = b[1] /\ a[2] > b[2])

\* uint64(1<<32) - 1
MaxValueLen == <<Limb - 1, Limb - 1>>

\* uint32(x)
wu32(a) == <<a[1] % Limb, a[2]>>

\* the lengths of the values a caller hands to Add: none, one byte, and the
\* lengths around 2^32
SizedLens == {wide(0), wide(1), <<Limb - 1, Limb - 2>>, MaxValueLen, <<Limb, 0>>, <<Limb, 1>>}

\* addRecord on the writer ww and the builder's keys, for a value of n bytes:
\* the length check, the duplicate check, bb.Add, the keymap, writeRecord
addSized(ww, keys, key, n) ==
    IF wgt(n, MaxValueLen) THEN [w |-> ww, keys |-> keys, err |-> "ErrValueTooLarge"]
    ELSE IF key \in DOMAIN ww.keymap THEN [w |-> ww, keys |-> keys, err |-> "ErrExists"]
    ELSE LET w1 == [ww EXCEPT !.keymap = (key :> [off |-> ww.off, vlen |-> wu32(n)]) @@ @]
         IN  [w |-> IF wgt(n, wide(0))
                    THEN [w1 EXCEPT !.off = wadd(wadd(@, n), wide(8)),
                                    !.valSize = wadd(@, n)]
                    ELSE w1,
              keys |-> Append(keys, key), err |-> "nil"]

\* DBWriter.Add(key, val) with len(val) = n
AddSized(key, n) ==
    /\ IF w.state # 0
       THEN /\ ret' = Ret("Add", "ErrFrozen", n)
            /\ UNCHANGED <<w, bld>>
       ELSE LET r == addSized(w, bld.keys, key, n)
            IN  /\ w' = r.w
                /\ bld' = [bld EXCEPT !.keys = r.keys]
                /\ ret' = Ret("Add", r.err, n)
    /\ UNCHANGED <<hv, mp, found, kv, ino, fs, fz, faults, rd, rret>>

InitSized ==
    /\ hv = <<>>
    /\ \/ \E load \in Loads : bld = NewChdBuilder(load)
       \/ \E g \in DBGammas : bld = NewBBHashBuilder(g)
    /\ mp = NoMPH
    /\ found = NoFind
    /\ w = [state |-> 0, keymap |-> <<>>, off |-> wide(64), valSize |-> wide(0)]
    /\ kv = <<>> /\ ino = <<>> /\ fs = <<>> /\ fz = IdleFz
    /\ ret = Ret("new", "nil", wide(0))
    /\ faults = 0 /\ rd = NoReader /\ rret = <<>>

NextSized == \E key \in Keys, n \in SizedLens : AddSized(key, n)

SpecSized == InitSized /\ [][NextSized]_vars

\* ------------------------------------- threads that share one bitVector
\* bld is the bit-vector: its words v and the holder mu of its mutex (0: free);
\* rret the threads: the calls each has still to make, where it is in the
\* call at hand, the word it loaded, the bits whose Set has returned and
\* what its calls of IsSet returned.
BVBits == {0, 1, 64}

\* what a thread calls: Set(i) or IsSet(i)
BVCalls == {<<"Set", i>> : i \in BVBits} \cup {<<"IsSet", 0>>}

\* the calls of one thread, in order
BVPrograms == UNION {[1 .. n -> BVCalls] : n \in 1 .. 2}

\* a mutex that never makes a thread wait
LockFree(mu, t) == TRUE

\* b.Lock() returns in thread t: the mutex is free
Lock(mu, t) == mu = 0

\* thread t past the call at hand
BVReturn(th) ==
    [th EXCEPT !.ops = Tail(@), !.pc = IF Len(th.ops) = 1 THEN "done" ELSE "call", !.w = {}]

\* thread t enters Set or IsSet and takes the mutex
BVLock(t) ==
    /\ rret[t].pc = "call"
    /\ Lock(bld.mu, t)
    /\ bld' = [bld EXCEPT !.mu = t]
    /\ rret' = [rret EXCEPT ![t].pc = "load"]
    /\ UNCHANGED <<hv, mp, found, w, kv, ino, fs, fz, ret, faults, rd>>

\* thread t reads the word b.v[i/64]; IsSet unlocks and returns the bit
BVLoad(t) ==
    /\ rret[t].pc = "load"
    /\ LET op == rret[t].ops[1]
           word == bld.v[(op[2] \div 64) + 1]
       IN  IF op[1] = "IsSet"
           THEN /\ rret' = [rret EXCEPT ![t] = [BVReturn(rret[t]) EXCEPT
                                !.saw = Append(@, <<op[2], (op[2] % 64) \in word>>)]]
                /\ bld' = [bld EXCEPT !.mu = 0]
           ELSE /\ rret' = [rret EXCEPT ![t].pc = "store", ![t].w = word]
                /\ bld' = bld
    /\ UNCHANGED <<hv, mp, found, w, kv, ino, fs, fz, ret, faults, rd>>

\* thread t writes the word with the bit or-ed in and unlocks: Set returns
BVStore(t) ==
    /\ rret[t].pc = "store"
    /\ LET i == rret[t].ops[1][2]
       IN  /\ bld' = [bld EXCEPT !.v[(i \div 64) + 1] = rret[t].w \cup {i % 64}, !.mu = 0]
           /\ rret' = [rret EXCEPT ![t] = [BVReturn(rret[t]) EXCEPT !.did = @ \cup {i}]]
    /\ UNCHANGED <<hv, mp, found, w, kv, ino, fs, fz, ret, faults, rd>>

InitBV ==
    /\ hv = <<>> /\ mp = NoMPH /\ found = NoFind
    /\ w = [state |-> 0] /\ kv = <<>> /\ ino = <<>> /\ fs = <<>> /\ fz = <<>>
    /\ ret = "" /\ faults = 0 /\ rd = <<>>
    /\ bld = [kind |-> "bitvector", v |-> newBitVector(65), mu |-> 0]
    /\ \E prog \in [Threads -> BVPrograms] :
         rret = [t \in Threads |->
                   [pc |-> "call", ops |-> prog[t], w |-> {}, did |-> {}, saw |-> <<>>]]

NextBV == \E t \in Threads : BVLock(t) \/ BVLoad(t) \/ BVStore(t)

SpecBV == InitBV /\ [][NextBV]_vars

\* ------------------------------------------------------------- claims
Distinct(keys) == Cardinality(Range(keys)) = Len(keys)

\* C1: DB round-trip.  After Add of each (k, v), N >= 1, and a successful
\* Freeze, NewDBReader on the final file succeeds, and Find(k) returns exactly
\* v with no error for every added (k, v).
C1_RoundTrip ==
    (kv # <<>>) =>
        /\ rd.st # "err"
        /\ (rd.st = "open" /\ rret.key \in DOMAIN kv) =>
               (rret.err = "nil" /\ rret.val = kv[rret.key].val)

\* C2: Find(k) on the frozen DB, for a key k that was never added, returns
\* the NoKey error: never success, never another error.
C2_NonMemberNoKey ==
    (rd.st = "open" /\ rret.key \in DBKeys /\ rret.key \notin DOMAIN kv) =>
        rret.err = "ErrNoKey"

\* the slots of the reader's offset table that hold key
SlotsOf(r, key) ==
    {i \in 0 .. (r.nkeys - 1) :
        r.offset[IF r.flags % 2 = 1 THEN i + 1 ELSE (2 * i) + 1] = key}

\* C7: Add of a key that was already added returns Exists before any I/O and
\* leaves the writer unchanged (key map, offset, value-size total, the keys of
\* the builder, the file); and a subsequent Freeze builds a DB that holds the
\* key once, with the value of the first Add.
C7_DuplicateAdd ==
    /\ [][(w.state = 0 /\ ret'.op = "Add" /\ ret'.err = "ErrExists")
             => UNCHANGED <<w, bld, ino, fs>>]_vars
    /\ [](\A k \in DOMAIN kv : kv[k].adds = 2 =>
             /\ rd.st # "err"
             /\ rd.st = "open" => Cardinality(SlotsOf(rd, k)) = 1
             /\ (rd.st = "open" /\ rret.key = k) =>
                    (rret.err = "nil" /\ rret.val = kv[k].val))

\* C8: the writer's state only moves from Open to Frozen or to Aborted, and
\* on a writer that is not Open every Add, AddKeyVals, Freeze and Abort
\* returns ErrFrozen and changes neither the state, the key map nor the final file.
C8_Lifecycle ==
    [][/\ (w'.state # w.state) => (w.state = 0 /\ w'.state \in {-1, 1})
       /\ (w.state # 0) =>
              /\ w'.keymap = w.keymap
              /\ fs'.final = fs.final
              /\ (ret' # ret) => ret'.err = "ErrFrozen"]_vars

\* C8 witness: Freeze on a frozen writer has returned ErrFrozen, its deferred
\* abort has run, and the published file is there.
C8_Witness ==
    /\ w.state = 1
    /\ ret = Ret("Freeze", "ErrFrozen", 0)
    /\ fs.final # NoFile

\* C9: a Freeze of an Open writer that fails, at whatever step, has aborted
\* before it returns: no temporary file, no file at the final path, and the
\* writer Aborted.
C9_FailedFreezeAborts ==
    (ret.op = "Freeze" /\ ret.err \in {"ErrMPHFail", "ErrIO", "can't find key"}) =>
        /\ ~fs.tmp
        /\ fs.final = NoFile
        /\ w.state = -1

\* the file f is all of a DB: a header that decodes, the tables of its nkeys,
\* the marshalled MPH, and the trailer that is the checksum of these
CompleteDB(f, m) ==
    LET hdrb == ReadAt(f, 0, 64)
        hd == decodeHeader(hdrb, f.size)
        tblsz == hd.nkeys * (IF hd.flags % 2 = 1 THEN 8 ELSE 20)
        mph == mphMarshal(m)
    IN  /\ f.size >= 64 + 32
        /\ hd.err = "nil"
        /\ hd.nkeys = mphLen(m)
        /\ hd.offtbl % PageSize = 0
        /\ f.size = hd.offtbl + align8(tblsz) + Len(mph) + 32
        /\ ReadAt(f, hd.offtbl + align8(tblsz), Len(mph)) = mph
        /\ verifyChecksum(f, hdrb, hd.offtbl)

\* C10: a file exists at the final path only once the rename of a successful
\* Freeze has put it there: the writer is Frozen, the temporary name is gone,
\* the fd is closed, and the file is complete.
C10_AtomicPublish ==
    (fs.final # NoFile) =>
        /\ w.state = 1
        /\ ~fs.tmp
        /\ ~w.fdopen
        /\ fz.pc = "idle"
        /\ CompleteDB(fs.final, mp)

\* C10 witness: a DB of two records, one of them with a value, is published.
C10_Witness ==
    /\ fs.final # NoFile
    /\ Cardinality(DOMAIN kv) = 2
    /\ w.valSize > 0

\* C12: Add of a value of 2^32 - 1 bytes or more (more than 2^32 - 2) returns
\* ErrValueTooLarge and records nothing; Add of a shorter value does not
\* return ErrValueTooLarge.
C12_ValueTooLarge ==
    [][(ret'.op = "Add") =>
          IF wgt(ret'.n, <<Limb - 1, Limb - 2>>)
          THEN ret'.err = "ErrValueTooLarge" /\ w' = w /\ bld' = bld
          ELSE ret'.err # "ErrValueTooLarge"]_vars

\* the positions where the file at the path differs from the file as written
DamagedAt(f, g) ==
    {o \in DOMAIN f.data \cup DOMAIN g.data : ByteAt(f, o) # ByteAt(g, o)}

\* the keys whose value record (checksum and value) holds the position o
RecordAt(keymap, o) ==
    {k \in DOMAIN keymap :
        keymap[k].vlen > 0 /\ keymap[k].off <= o /\ o < keymap[k].off + 8 + keymap[k].vlen}

\* C13: a frozen DB with one byte changed before the trailer, at o in
\* [0, size - 32): either NewDBReader fails, or o lies in the value record of
\* a key and Find of that key returns an error.
C13_Integrity ==
    \A o \in DamagedAt(ino, fs.final) :
        (o < ino.size - 32 /\ rd.st = "open") =>
            /\ RecordAt(w.keymap, o) # {}
            /\ \A k \in RecordAt(w.keymap, o) : rret.key = k => rret.err # "nil"

\* C14: a builder made by NewBBHashBuilder with gamma <= 1.0 constructs with
\* gamma = 2.0, and its Freeze over distinct keys does not break down: the
\* state of the construction and the finished MPH carry gamma 2.0, and no
\* level is built on an empty bit-vector.
C14_GammaCoerced ==
    (bld.phase # "add" /\ Distinct(bld.keys)) =>
        /\ bld.phase # "panic"
        /\ bld.g = <<2, 1>>
        /\ mp.kind = "bbhash" => mp.g = <<2, 1>>

\* C15: marshal round trip.  For a CHD or BBHash built over distinct keys,
\* unmarshalling what MarshalBinary wrote succeeds, and the MPH it yields
\* finds every original key as the built one does (same ok, same index); for
\* BBHash it also has the same salt, the same bit-vectors and the same ranks.
C15_MarshalRoundTrip ==
    (mp.kind \in {"chd", "bbhash"} /\ Distinct(bld.keys) /\ bld.keys # <<>>) =>
        LET r == unmarshalOf(mp)
        IN  /\ r.err = "nil"
            /\ r.salt = MphSalt
            /\ \A k \in Range(bld.keys) : mphFind(r.mph, hv, k) = mphFind(mp, hv, k)
            /\ mp.kind = "bbhash" => (r.mph.bits = mp.bits /\ r.mph.ranks = mp.ranks)

\* C16: after a successful Freeze of N distinct keys (CHD or BBHash, a key 0
\* included), Len() of a reader of the file is N, and IterFunc calls fp
\* exactly once for each added (key, value) pair and for no other pair.
C16_IterAll ==
    (rd.st = "open" /\ rret.key = -2) =>
        /\ dbLen(rd) = Cardinality(DOMAIN kv)
        /\ rret.err = "nil"
        /\ Range(rret.val) = {<<k, kv[k].val>> : k \in DOMAIN kv}
        /\ Distinct(rret.val)

\* the places of keys, among the first n, whose key is neither in the key map
\* nor at an earlier place
FreshAt(keymap, keys, n) ==
    {i \in 1 .. n : keys[i] \notin DOMAIN keymap /\ \A j \in 1 .. (i - 1) : keys[j] # keys[i]}

\* C17: AddKeyVals(keys, vals) on an Open writer processes exactly the first
\* min(len(keys), len(vals)) pairs; a pair whose key was already added
\* (earlier in the call or before it) is discarded and the pairs after it
\* are still processed; the count returned is the number of records added,
\* the growth of the key map.
C17_AddKeyVals ==
    [][\A keys \in Batches, vals \in BatchValues :
          (w.state = 0 /\ AddBatch(keys, vals)) =>
              LET n == IF Len(vals) < Len(keys) THEN Len(vals) ELSE Len(keys)
              IN  /\ DOMAIN w'.keymap = DOMAIN w.keymap \cup {keys[i] : i \in 1 .. n}
                  /\ ret'.n = Cardinality(FreshAt(w.keymap, keys, n))
                  /\ ret'.n = Cardinality(DOMAIN w'.keymap) - Cardinality(DOMAIN w.keymap)
                  /\ \A i \in FreshAt(w.keymap, keys, n) :
                         w'.keymap[keys[i]].vlen = Len(vals[i])]_vars

\* C18: newChd and newBBHash never panic on a short buffer.  A buffer shorter
\* than the 16-byte header, or shorter than the body its header announces,
\* yields a returned error (ErrTooSmall for a short header), never an
\* out-of-range index or slice.
C18_NoPanicOnShort ==
    (rd # <<>> /\ rd.len < rd.full) =>
        /\ rd.err \notin {"nil", "panic"}
        /\ rd.len < 16 => rd.err = "ErrTooSmall"

\* C19: the construction ends in success or in the error MphFail, nothing
\* else.  BBHash Freeze over a key list with a key twice does not succeed and
\* fails once the level counter exceeds MaxLevel; CHD Freeze fails when a
\* bucket has run out of seeds; the failure returned is ErrMPHFail.
C19_FreezeOutcome ==
    /\ bld.phase \in {"add", "build", "done", "fail"}
    /\ (bld.kind = "bbhash" /\ bld.phase = "done") => Distinct(bld.keys)
    /\ (bld.kind = "bbhash" /\ bld.phase = "fail") => bld.s.lvl > MaxLevel
    /\ (bld.kind = "chd" /\ bld.phase = "fail") => bld.c.sd >= MaxSeed
    /\ bld.phase = "fail" => freezeErr(bld) = ErrMPHFail

\* the slot of the key k under the seed table of the chd m:
\* rhash(seeds[b(k)], k, m, salt) with b(k) = rhash(0, k, m, salt)
SlotOf(m, h, k) == rhash(h, m.seed[rhash(h, 0, k, Len(m.seed)) + 1], k, Len(m.seed))

\* C20: after a successful CHD Freeze over distinct keys, the slot of every
\* original key is the slot of no other original key, Find returns that slot
\* with ok, and every index returned is below Len().
C20_ChdInjective ==
    (mp.kind = "chd" /\ Distinct(bld.keys)) =>
        /\ \A k \in Range(bld.keys) :
              /\ chdFind(mp, hv, k) = <<SlotOf(mp, hv, k), TRUE>>
              /\ SlotOf(mp, hv, k) < chdLen(mp)
        /\ \A j, k \in Range(bld.keys) : SlotOf(mp, hv, j) = SlotOf(mp, hv, k) => j = k

\* a chd over three distinct keys, two of them in one bucket and a bucket
\* that needed a second seed, and Find of an original key has returned
C20_Witness ==
    /\ mp.kind = "chd" /\ Len(bld.keys) = 3 /\ Distinct(bld.keys)
    /\ \E j, k \in Range(bld.keys) : j # k /\ rhash(hv, 0, j, chdLen(mp)) = rhash(hv, 0, k, chdLen(mp))
    /\ \E i \in DOMAIN mp.seed : mp.seed[i] > 1
    /\ found.key \in Range(bld.keys) /\ found.ok /\ found.idx = SlotOf(mp, hv, found.key)

\* ceil(n * gamma) rounded up to a multiple of 64, gamma the fraction g
CeilSize(n, g) == ((((n * g[1]) + g[2] - 1) \div g[2] + 63) \div 64) * 64

\* C21: at every level of the BBHash construction the bit-vectors A and coll
\* have size ceil(|K_l| * gamma) rounded up to a multiple of 64, K_l the keys
\* still unplaced at the level; the size is never 0 when K_l is not empty.
C21_LevelSizing ==
    (bld.kind = "bbhash" /\ bld.phase = "build") =>
        /\ Size(bld.s.A) = CeilSize(Len(bld.cur), bld.g)
        /\ Size(bld.s.coll) = CeilSize(Len(bld.cur), bld.g)
        /\ bld.cur # <<>> => Size(bld.s.A) > 0

\* how often the key k stands in the list keys
Count(keys, k) == Cardinality({p \in DOMAIN keys : keys[p] = k})

\* C22: the redo list under concurrent construction.  While the workers
\* assign, no append to the shared redo list changes the keys of a shard
\* whose worker has not finished; the redo list never holds a key more often
\* than the builder was given it; and once all workers of level 0 are done
\* it is exactly the multiset of the keys whose position is marked in coll.
C22_RedoList ==
    [][(bld.kind = "bbhash" /\ bld.phase = "assign") =>
          /\ bld'.phase = "assign" =>
                \A i \in DOMAIN bld.wk :
                    bld'.wk[i].pc # "done" => shard(bld'.cur, i) = shard(bld.cur, i)
          /\ \A k \in Keys : Count(bld.s.redo, k) <= Count(bld.keys, k)
          /\ (bld.s.lvl = 0 /\ \A i \in DOMAIN bld.wk : bld.wk[i].pc = "done") =>
                \A k \in Range(bld.keys) :
                    Count(bld.s.redo, k) =
                        IF IsSet(bld.s.coll, bhash(hv, k, 0) % Size(bld.s.coll))
                        THEN Count(bld.keys, k) ELSE 0]_vars

\* the bits whose Set has returned in some thread
BVDone == UNION {rret[t].did : t \in Threads}

\* C23: no Set on a shared bit-vector is lost.  A bit whose Set has returned
\* stays set; a bit no thread set is never set; a bit that IsSet reported
\* set stays set; and when all threads have
\* finished, IsSet(i) holds exactly for the bits that some thread set.
C23_NoLostSet ==
    /\ \A i \in BVDone : IsSet(bld.v, i)
    /\ \A i \in 0 .. (Size(bld.v) - 1) :
          IsSet(bld.v, i) => \E t \in Threads :
                                \/ i \in rret[t].did
                                \/ \E p \in DOMAIN rret[t].ops : rret[t].ops[p] = <<"Set", i>>
    /\ \A t \in Threads : \A p \in DOMAIN rret[t].saw :
          rret[t].saw[p][2] => IsSet(bld.v, rret[t].saw[p][1])
    /\ (\A t \in Threads : rret[t].pc = "done") =>
          \A i \in 0 .. (Size(bld.v) - 1) : IsSet(bld.v, i) <=> i \in BVDone

\* both threads have finished; they set two bits of one word and one bit
\* twice, and a bit of the other word
C23_Witness ==
    /\ \A t \in Threads : rret[t].pc = "done"
    /\ BVDone = {0, 1, 64}
    /\ \E t, u \in Threads : t # u /\ 0 \in rret[t].did /\ 0 \in rret[u].did

\* the smallest power of two that is >= x, from p on
RECURSIVE LeastPow2(_, _)
LeastPow2(x, p) == IF p >= x THEN p ELSE LeastPow2(x, 2 * p)

\* C24: for N >= 1 keys and the load factor alpha, Freeze of CHD uses the
\* table size m = the smallest power of two >= ceil(N / alpha), and so
\* N / m <= alpha.
C24_ChdTableSize ==
    (bld.kind = "chd" /\ bld.phase \in {"build", "done", "fail"} /\ Len(bld.keys) >= 1) =>
        LET n == Len(bld.keys)
            num == bld.g[1]
            den == bld.g[2]
        IN  /\ bld.c.m = LeastPow2(((n * den) + num - 1) \div num, 1)
            /\ n * den <= bld.c.m * num
            /\ bld.phase = "done" => chdLen(mp) = bld.c.m

\* the flags in the header of the file f
FlagsOf(f) == decodeHeader(ReadAt(f, 0, 64), f.size).flags

\* where NewDBReader takes the marshalled MPH to start in the file f: past
\* the offset table and the value lengths
ReaderMphAt(f) ==
    LET hd == decodeHeader(ReadAt(f, 0, 64), f.size)
    IN  hd.offtbl + (hd.nkeys * (IF hd.flags % 2 = 1 THEN 8 ELSE 20))

\* C26: an empty value is a legal value beside non-empty ones.  In a DB with
\* values, Find of a key that was added with an empty value returns the
\* empty value and no error, whatever the order of the Adds.
C26_EmptyValue ==
    (rd.st = "open" /\ rd.flags % 2 = 0 /\ rret.key \in DOMAIN kv) =>
        (kv[rret.key].val = <<>> => (rret.err = "nil" /\ rret.val = <<>>))

\* C27: under every interleaving of the Find calls of threads that share one
\* DBReader, a Find(k) of an added key that returns without error returns
\* the value stored for k, never the bytes read at a displaced position.
C27_NoWrongBytes ==
    \A t \in Threads :
        (rret[t].pc = "ret" /\ rret[t].err = "nil" /\ rret[t].key \in DOMAIN kv) =>
            rret[t].val = kv[rret[t].key].val

\* two Finds have interleaved: one read at the position of the other and
\* failed its checksum, the other returned a value of one byte
C27_Witness ==
    \E t, u \in Threads :
        /\ t # u
        /\ rret[t].pc = "ret" /\ rret[t].err = "nil" /\ rret[t].key \in DOMAIN kv
        /\ Len(rret[t].val) = 1
        /\ rret[u].pc = "ret" /\ rret[u].err = "corrupted record" /\ rret[u].key \in DOMAIN kv

\* the bytes of the body of the marshalled MPH m: the seeds of a chd, a
\* length and the words for each bit-vector of a bbHash
BodySize(m) ==
    IF m.kind = "chd" THEN Len(m.seed) * m.seedsize
    ELSE SumSeq([l \in DOMAIN m.bits |-> 8 + (8 * Words(m.bits[l]))])

\* C28: for a chd and for a bbHash, MarshalBinary returns exactly the number
\* of bytes it wrote: the 16 bytes of the header and the body.
C28_MarshalCount ==
    (mp.kind \in {"chd", "bbhash"}) =>
        /\ Len(mphMarshal(mp)) = 16 + BodySize(mp)
        /\ mphMarshalCount(mp) = Len(mphMarshal(mp))

\* C29: the number of levels of every bbHash that the build returns is
\* within what the reader accepts, 0 < levels <= _MaxLevel: newBBHash does
\* not refuse the levels of a bbHash that was built.
C29_LevelLimit ==
    (bld.kind = "bbhash" /\ bld.phase = "done" /\ mp.kind = "bbhash") =>
        /\ Len(mp.bits) > 0
        /\ Len(mp.bits) <= MaxLevel
        /\ newBBHash(bbMarshal(mp)).err # "too many levels"

\* C30: a writer (CHD or BBHash) frozen with no key added leaves a file that
\* NewDBReader opens, with Len() = 0; and on a reader of such a file every
\* Find returns the no-such-key error: none panics.
C30_EmptyDB ==
    (kv = <<>> /\ fs.final # NoFile) =>
        /\ NewDBReader(fs.final).st = "open"
        /\ dbLen(NewDBReader(fs.final)) = 0
        /\ (rd.st = "open" /\ rret.key \in DBKeys) => rret.err = "ErrNoKey"

\* C25: the writer and the reader agree on where the marshalled MPH starts.
\* For every file of a successful Freeze with at least one key, keys only or
\* with values, the reader's MPH position is the 8-byte aligned position at
\* which Freeze marshalled the MPH, the bytes there are the marshalled MPH,
\* and NewDBReader opens the file.
C25_MphOffset ==
    (fs.final # NoFile /\ mphLen(mp) >= 1) =>
        /\ ReaderMphAt(fs.final) = align8(ReaderMphAt(fs.final))
        /\ ReadAt(fs.final, ReaderMphAt(fs.final), Len(mphMarshal(mp))) = mphMarshal(mp)
        /\ NewDBReader(fs.final).st = "open"

\* C11: keys-only mode.  The file that Freeze leaves has bit 0 of the header
\* flags set exactly when every record was added with an empty value; a
\* reader of such a file holds one u64 key per slot and no value lengths,
\* and Find(k) of an added key k returns the empty value and no error.
C11_KeysOnly ==
    (fs.final # NoFile) =>
        LET keysOnly == FlagsOf(fs.final) % 2 = 1
        IN  /\ keysOnly <=> (\A k \in DOMAIN kv : kv[k].val = <<>>)
            /\ (keysOnly /\ rd.st = "open") =>
                   /\ Len(rd.offset) = rd.nkeys /\ rd.vlen = <<>>
                   /\ rd.nkeys = mphLen(mp)
                   /\ (rret.key \in DOMAIN kv) => (rret.err = "nil" /\ rret.val = <<>>)

\* C11 witness: a keys-only DB of two keys is open, and Find of an added key
\* has returned.
C11_Witness ==
    /\ fs.final # NoFile /\ FlagsOf(fs.final) % 2 = 1
    /\ Cardinality(DOMAIN kv) = 2
    /\ rd.st = "open" /\ rret.key \in DOMAIN kv /\ rret.err = "nil"


\* C6: threads that call Find on one DBReader, under every interleaving of
\* their steps (cache lookup, seek, read, checksum): a Find(k) for an added
\* key k returns the error and the value that Find(k) returns when it runs
\* alone on this reader and file.
C6_ConcurrentFind ==
    \A t \in Threads :
        (rret[t].pc = "ret" /\ rret[t].key \in DOMAIN kv) =>
            LET alone == dbFind(rd, fs.final, hv, rret[t].key)
            IN  rret[t].err = alone.err /\ rret[t].val = alone.val

\* C5: concurrent BBHash construction (more than MinParallelKeys keys, the
\* shard workers interleaving their IsSet and Set steps between the two
\* synchronization points) over N distinct keys, when Freeze succeeds:
\* Find(k) is ok for every key of the set and no two keys get the same
\* index, so that k -> Find(k) is a bijection of the key set onto 0 .. N-1.
C5_ParallelBijection ==
    (mp.kind = "bbhash" /\ Len(bld.keys) > MinParallelKeys /\ Distinct(bld.keys)) =>
        /\ \A k \in Range(bld.keys) :
              bbFind(mp, hv, k)[2] /\ bbFind(mp, hv, k)[1] < Len(bld.keys)
        /\ \A j, k \in Range(bld.keys) :
              bbFind(mp, hv, j)[1] = bbFind(mp, hv, k)[1] => j = k

\* C3: serial BBHash construction over N distinct keys, when Freeze succeeds:
\* Find(k) is ok for every key of the set, and k -> Find(k) is a bijection
\* of the key set onto 0 .. N-1.
C3_BBHashBijection ==
    (mp.kind = "bbhash" /\ Distinct(bld.keys)) =>
        LET K == Range(bld.keys)
        IN  /\ \A k \in K : bbFind(mp, hv, k)[2]
            /\ {bbFind(mp, hv, k)[1] : k \in K} = 0 .. (Len(bld.keys) - 1)

\* C3 witness: three distinct keys, a collision that took a second level, a
\* bit-vector with a bit in its second word, and Find has returned the last index.
C3_Witness ==
    /\ mp.kind = "bbhash"
    /\ Distinct(bld.keys) /\ Len(bld.keys) = 3
    /\ Len(mp.bits) = 2 /\ Words(mp.bits[1]) >= 2 /\ mp.bits[1][2] # {}
    /\ found.ok /\ found.key \in Range(bld.keys) /\ found.idx = 2

\* C4: CHD over N distinct keys, when Freeze succeeds: every key has
\* Find(k) < N, and k -> Find(k) is a bijection of the key set onto 0 .. N-1.
C4_ChdMinimal ==
    (mp.kind = "chd" /\ Distinct(bld.keys) /\ bld.keys # <<>>) =>
        LET K == Range(bld.keys)
        IN  /\ \A k \in K : chdFind(mp, hv, k)[2] /\ chdFind(mp, hv, k)[1] < Len(bld.keys)
            /\ {chdFind(mp, hv, k)[1] : k \in K} = 0 .. (Len(bld.keys) - 1)

====
